---------------------------- MODULE Spec2Model ----------------------------
(***************************************************************************)
(* Model of the Multi-API Swagger MCP server (Acceleronix/swagger-mcp-     *)
(* server): the API catalog loader (init / initializeApi), the endpoint    *)
(* indexer (collectApiEndpoints), the per-endpoint tool registration of    *)
(* the earlier revision (registerApiTools), and the agent-facing tools     *)
(* (list_apis, test_connection, search_api with its search and call        *)
(* modes, executeApiCall).                                                 *)
(*                                                                         *)
(* Strings are TLA+ strings; JavaScript's undefined is the reserved        *)
(* string Undefined.  The emoji and the backquotes of the server's texts   *)
(* are left out of the texts (a TLA+ string cannot hold them); everything  *)
(* else of a text is built as the code builds it.                          *)
(***************************************************************************)
EXTENDS Integers, Sequences, FiniteSets, TLC

VARIABLES
    rawOperationId,   \* the argument of simplifyOperationId
    normalizedName,   \* what simplifyOperationId returned
    swaggerServer,    \* the module-level reference of the Workers entry point (part_001)
    servers,          \* the SwaggerMcpServer objects constructed, each with the state of its loadSwaggerSpec
    fetches,          \* the requests of the Workers entry point: position and outcome of each
    configData,       \* the argument of loadConfig
    loadedConfig,     \* what loadConfig resolved to
    variant,          \* which revision runs: "router" (src/src/index.ts) or "tools" (src/unnamed/part_003)
    config,           \* config.apis, the ordered list init() iterates
    pc,               \* position of init(): "loop" or "done"
    apiIdx,           \* index of the next entry of config.apis
    apiInstances,     \* the Map name -> ApiInstance, in insertion order
    allEndpoints,     \* the flat endpoint list
    registeredTools,  \* names registered with server.tool, in order
    parseCalls,       \* history: indexes of the entries whose swaggerUrl was handed to SwaggerParser.parse
    parseFailed,      \* history: indexes of the entries whose parse rejected
    loadErrors,       \* history: indexes of the entries whose initializeApi reached its catch
    lastCall,         \* the tool invocation handled last
    lastResponse,     \* what that invocation's handler produced
    lastRequests      \* the outbound HTTP requests that invocation issued

normalizerVars == <<rawOperationId, normalizedName>>

workerVars == <<swaggerServer, servers, fetches>>

vars == <<normalizerVars, workerVars, configData, loadedConfig, variant, config, pc, apiIdx, apiInstances, allEndpoints,
          registeredTools, parseCalls, parseFailed, loadErrors, lastCall,
          lastResponse, lastRequests>>

loadVars == <<normalizerVars, workerVars, configData, loadedConfig, variant, config, pc, apiIdx, apiInstances, allEndpoints,
              registeredTools, parseCalls, parseFailed, loadErrors>>

-----------------------------------------------------------------------------
(* Bounds of the model. *)

\* Longest config.apis list.
MaxApis == 2

\* The maxTools of the configuration entries that are not given 0 or 1.
MaxToolsBound == 4

-----------------------------------------------------------------------------
(* JavaScript values and string functions. *)

Undefined == "<undefined>"

\* JavaScript truthiness of an optional string: undefined and '' are falsy.
Truthy(s) == s # Undefined /\ s # ""

\* a || b on optional strings.
OrElse(a, b) == IF Truthy(a) THEN a ELSE b

Min(a, b) == IF a <= b THEN a ELSE b

CharAt(s, i) == SubSeq(s, i, i)

\* String.prototype.includes
Includes(s, sub) ==
    \/ Len(sub) = 0
    \/ \E i \in 1..(Len(s) - Len(sub) + 1) : SubSeq(s, i, i + Len(sub) - 1) = sub

\* String.prototype.indexOf, 1-based; 0 when absent.
IndexOf(s, sub) ==
    IF ~Includes(s, sub) THEN 0
    ELSE IF Len(sub) = 0 THEN 1
    ELSE CHOOSE i \in 1..(Len(s) - Len(sub) + 1) :
            /\ SubSeq(s, i, i + Len(sub) - 1) = sub
            /\ \A j \in 1..(i - 1) : SubSeq(s, j, j + Len(sub) - 1) # sub

\* String.prototype.replace(pattern: string, replacement): the first occurrence only.
ReplaceFirst(s, pat, rep) ==
    LET i == IndexOf(s, pat)
    IN  IF i = 0 THEN s
        ELSE SubSeq(s, 1, i - 1) \o rep \o SubSeq(s, i + Len(pat), Len(s))

LowerChar(c) ==
    CASE c = "A" -> "a" [] c = "B" -> "b" [] c = "C" -> "c" [] c = "D" -> "d"
      [] c = "E" -> "e" [] c = "F" -> "f" [] c = "G" -> "g" [] c = "H" -> "h"
      [] c = "I" -> "i" [] c = "J" -> "j" [] c = "K" -> "k" [] c = "L" -> "l"
      [] c = "M" -> "m" [] c = "N" -> "n" [] c = "O" -> "o" [] c = "P" -> "p"
      [] c = "Q" -> "q" [] c = "R" -> "r" [] c = "S" -> "s" [] c = "T" -> "t"
      [] c = "U" -> "u" [] c = "V" -> "v" [] c = "W" -> "w" [] c = "X" -> "x"
      [] c = "Y" -> "y" [] c = "Z" -> "z" [] OTHER -> c

UpperChar(c) ==
    CASE c = "a" -> "A" [] c = "b" -> "B" [] c = "c" -> "C" [] c = "d" -> "D"
      [] c = "e" -> "E" [] c = "f" -> "F" [] c = "g" -> "G" [] c = "h" -> "H"
      [] c = "i" -> "I" [] c = "j" -> "J" [] c = "k" -> "K" [] c = "l" -> "L"
      [] c = "m" -> "M" [] c = "n" -> "N" [] c = "o" -> "O" [] c = "p" -> "P"
      [] c = "q" -> "Q" [] c = "r" -> "R" [] c = "s" -> "S" [] c = "t" -> "T"
      [] c = "u" -> "U" [] c = "v" -> "V" [] c = "w" -> "W" [] c = "x" -> "X"
      [] c = "y" -> "Y" [] c = "z" -> "Z" [] OTHER -> c

RECURSIVE toLowerCase(_)
toLowerCase(s) ==
    IF Len(s) = 0 THEN "" ELSE LowerChar(CharAt(s, 1)) \o toLowerCase(Tail(s))

RECURSIVE toUpperCase(_)
toUpperCase(s) ==
    IF Len(s) = 0 THEN "" ELSE UpperChar(CharAt(s, 1)) \o toUpperCase(Tail(s))

\* Array.prototype.join over optional strings: undefined joins as ''.
RECURSIVE Join(_, _)
Join(parts, sep) ==
    IF Len(parts) = 0 THEN ""
    ELSE LET h == IF Head(parts) = Undefined THEN "" ELSE Head(parts)
         IN  IF Len(parts) = 1 THEN h ELSE h \o sep \o Join(Tail(parts), sep)

\* encodeURIComponent on one character: the unreserved characters stay, the
\* others become their percent-encoded UTF-8 bytes.
EncodeChar(c) ==
    CASE c = "/" -> "%2F" [] c = " " -> "%20" [] c = "{" -> "%7B"
      [] c = "}" -> "%7D" [] c = ":" -> "%3A" [] c = "?" -> "%3F"
      [] c = "&" -> "%26" [] c = "=" -> "%3D" [] c = "%" -> "%25"
      [] OTHER -> c

RECURSIVE encodeURIComponent(_)
encodeURIComponent(s) ==
    IF Len(s) = 0 THEN "" ELSE EncodeChar(CharAt(s, 1)) \o encodeURIComponent(Tail(s))

\* path.replace(/[{}\/\-]/g, '_') of registerApiTools.
SanitizeChar(c) == IF c \in {"{", "}", "/", "-"} THEN "_" ELSE c

RECURSIVE SanitizePath(_)
SanitizePath(s) ==
    IF Len(s) = 0 THEN "" ELSE SanitizeChar(CharAt(s, 1)) \o SanitizePath(Tail(s))


-----------------------------------------------------------------------------
(* Specification documents, as SwaggerParser.parse returns them.  parse    *)
(* does not validate the document against the OpenAPI schema: its info may *)
(* be null (hasInfo FALSE), operations may lack an operationId, and a path *)
(* item may hold keys that are not HTTP methods.                           *)

Operation(operationId, summary, description, parameters) ==
    [operationId |-> operationId, summary |-> summary,
     description |-> description, parameters |-> parameters]

\* One key of a path item; isNull marks a falsy value.
Entry(key, op) == [key |-> key, isNull |-> FALSE, operation |-> op]

NullEntry(key) ==
    [key |-> key, isNull |-> TRUE, operation |-> Operation(Undefined, Undefined, Undefined, <<>>)]

PathOf(path, pathItem) == [path |-> path, isNull |-> FALSE, pathItem |-> pathItem]

\* A path whose value is not an object (null).
NullPath(path) == [path |-> path, isNull |-> TRUE, pathItem |-> <<>>]

\* The demo document: one operation, then a path whose value is null, then a
\* path with one more operation.
DemoDoc ==
    [hasInfo |-> TRUE, version |-> "1.0", description |-> "Demo API", hasPaths |-> TRUE,
     securitySchemes |-> {"bearerAuth"},
     paths |-> <<
        PathOf("/items/{id}",
               <<Entry("get", Operation("getItem", "Get Item", Undefined, <<"id">>))>>),
        NullPath("/void"),
        PathOf("/late",
               <<Entry("get", Operation("listLate", "Late List", Undefined, <<>>))>>)
     >>]

\* A document whose info is null; two of its operations have no operationId and
\* paths that differ only in '-' and '/', and the path item of /a/b holds,
\* besides its operations, a $ref, a null and the path-level key parameters
\* (an array, which has none of the fields of an operation).  GET /a/b
\* declares a query parameter named username.
ShopDoc ==
    [hasInfo |-> FALSE, version |-> Undefined, description |-> Undefined, hasPaths |-> TRUE,
     securitySchemes |-> {},
     paths |-> <<
        PathOf("/a-b",
               <<Entry("get", Operation(Undefined, "List Orders", Undefined, <<>>))>>),
        PathOf("/a/b",
               <<Entry("$ref", Operation(Undefined, Undefined, Undefined, <<>>)),
                 NullEntry("put"),
                 Entry("get", Operation(Undefined, Undefined, "Order ITEMS", <<"q", "username">>)),
                 Entry("parameters", Operation(Undefined, Undefined, Undefined, <<>>)),
                 Entry("post", Operation("createOrder", "Create Order", Undefined, <<"q">>))>>)
     >>]

\* The endpoints searchEndpoints renders: matchingEndpoints.slice(0, 10).
DisplayLimit == 10

\* A document with one operation more than a search result shows.
BigDoc ==
    [hasInfo |-> TRUE, version |-> "2.0", description |-> "Big API", hasPaths |-> TRUE,
     securitySchemes |-> {},
     paths |-> [i \in 1..(DisplayLimit + 1) |->
                  PathOf("/big/" \o ToString(i),
                         <<Entry("get", Operation(Undefined, "Big", Undefined, <<>>))>>)]]

DemoSpecUrl == "https://x/spec/demo"
ShopSpecUrl == "https://y/spec/shop"
BigSpecUrl == "https://x/spec/big"

\* What SwaggerParser.parse(swaggerUrl) resolves to when it does not reject.
Document(swaggerUrl) ==
    IF swaggerUrl = DemoSpecUrl THEN DemoDoc
    ELSE IF swaggerUrl = BigSpecUrl THEN BigDoc
    ELSE ShopDoc

-----------------------------------------------------------------------------
(* Configuration entries (ApiConfigSchema). *)

Auth(type, token, username, password, apiKey, apiKeyName, apiKeyIn) ==
    [type |-> type, token |-> token, username |-> username, password |-> password,
     apiKey |-> apiKey, apiKeyName |-> apiKeyName, apiKeyIn |-> apiKeyIn]

BearerAuth(token) ==
    Auth("bearer", token, Undefined, Undefined, Undefined, Undefined, Undefined)

ApiKeyAuth(apiKey, apiKeyName, apiKeyIn) ==
    Auth("apiKey", Undefined, Undefined, Undefined, apiKey, apiKeyName, apiKeyIn)

ApiConfig(name, title, swaggerUrl, baseUrl, auth, enabled, maxTools) ==
    [name |-> name, title |-> title, swaggerUrl |-> swaggerUrl, baseUrl |-> baseUrl,
     auth |-> auth, enabled |-> enabled, maxTools |-> maxTools]

\* The entries a configuration list is drawn from.  The schema does not
\* require names to differ, so two of them share the name "demo".
ApiConfigs ==
    { ApiConfig("demo", "Demo", DemoSpecUrl, "https://x/api", BearerAuth("abc"), TRUE, MaxToolsBound),
      ApiConfig("shop", "Item Shop", ShopSpecUrl, "https://y", ApiKeyAuth("k1", "X-Key", "header"), TRUE, MaxToolsBound),
      ApiConfig("shop", "Item Shop", ShopSpecUrl, "https://y", ApiKeyAuth("k1", "X-Key", "header"), TRUE, 0),
      ApiConfig("demo", "Demo Two", ShopSpecUrl, "https://z", BearerAuth(""), TRUE, 1),
      ApiConfig("off", "Off", DemoSpecUrl, "https://x/api", BearerAuth("abc"), FALSE, MaxToolsBound) }

ConfigLists == UNION { [1..n -> ApiConfigs] : n \in 1..MaxApis }

\* Entries with the other auth types of AuthConfigSchema: an API key that is
\* to go into the query, and basic credentials.
AuthVariantConfigs ==
    { ApiConfig("shop", "Key Shop", ShopSpecUrl, "https://y", ApiKeyAuth("k1", "key", "query"), TRUE, MaxToolsBound),
      ApiConfig("demo", "Basic Demo", DemoSpecUrl, "https://x/api",
                Auth("basic", Undefined, "bob", "pw", Undefined, Undefined, Undefined),
                TRUE, MaxToolsBound) }

\* The configuration lists of one such entry.
AuthVariantLists == { <<apiConfig>> : apiConfig \in AuthVariantConfigs }

\* The configuration list of one entry that indexes all of BigDoc.
BigLists ==
    { << ApiConfig("demo", "Big Demo", BigSpecUrl, "https://x/api", BearerAuth("abc"), TRUE,
                   DisplayLimit + 1) >> }

-----------------------------------------------------------------------------
(* The configuration loader (config.ts, and the configuration module of    *)
(* the earlier revision, part_004).                                        *)

\* A value of configuration data whose type the schema checks.
JsUndefined == [type |-> "undefined"]
JsBoolean(b) == [type |-> "boolean", value |-> b]
JsNumber(n) == [type |-> "number", value |-> n]
JsString(s) == [type |-> "string", value |-> s]

\* An auth that is left out of an entry.
NoAuth == Auth(Undefined, Undefined, Undefined, Undefined, Undefined, Undefined, Undefined)

\* z.number().default(10) of maxTools and z.number().default(3000) of port.
DefaultMaxTools == 10
DefaultPort == 3000

\* z.string().url(): the strings drawn are absolute URLs or have no scheme.
IsUrl(s) == s # Undefined /\ Includes(s, "://")

\* AuthConfigSchema: optional; type and apiKeyIn are enums.
AuthConfigSchemaAccepts(auth) ==
    \/ auth = NoAuth
    \/ /\ auth.type \in {"basic", "bearer", "apiKey", "oauth2"}
       /\ auth.apiKeyIn \in {Undefined, "header", "query"}

\* ApiConfigSchema.safeParse(raw).success
ApiConfigSchemaAccepts(raw) ==
    /\ raw.name # Undefined
    /\ raw.title # Undefined
    /\ IsUrl(raw.swaggerUrl)
    /\ IsUrl(raw.baseUrl)
    /\ AuthConfigSchemaAccepts(raw.auth)
    /\ raw.enabled.type \in {"undefined", "boolean"}
    /\ raw.maxTools.type \in {"undefined", "number"}

\* The entry ApiConfigSchema returns for an accepted raw entry: the defaults
\* of enabled and maxTools are applied.
ApiConfigSchemaOutput(raw) ==
    ApiConfig(raw.name, raw.title, raw.swaggerUrl, raw.baseUrl, raw.auth,
              IF raw.enabled.type = "undefined" THEN TRUE ELSE raw.enabled.value,
              IF raw.maxTools.type = "undefined" THEN DefaultMaxTools ELSE raw.maxTools.value)

\* A Config value.
Config(apis, level, port, host) ==
    [apis |-> apis, log |-> [level |-> level], server |-> [port |-> port, host |-> host]]

\* ConfigSchema.safeParse(data).success: apis is an array of at least one
\* accepted entry, log.level is of the enum, server is an object.
ConfigSchemaAccepts(data) ==
    /\ data.hasApis
    /\ Len(data.apis) >= 1
    /\ \A i \in 1..Len(data.apis) : ApiConfigSchemaAccepts(data.apis[i])
    /\ data.logLevel \in {"debug", "info", "warn", "error"}
    /\ data.hasServer

\* What ConfigSchema.parse returns for accepted data.
ConfigSchemaOutput(data) ==
    Config([i \in 1..Len(data.apis) |-> ApiConfigSchemaOutput(data.apis[i])],
           data.logLevel, DefaultPort, "0.0.0.0")

\* defaultConfig of config.ts
defaultConfig ==
    Config(<<
      ApiConfig("device_mgr_enterprise", "IoT Device Manager (Enterprise)",
                "https://iot-api.acceleronix.io/v2/devicemgr/v2/api-docs?group=device-mgr-enterpriseapi",
                "https://iot-api.acceleronix.io/v2/devicemgr",
                BearerAuth(""), TRUE, 8),
      ApiConfig("binding_enduser", "Binding Service (EndUser)",
                "https://iot-api.acceleronix.io/v2/binding/v2/api-docs?group=BindingServiceEnduserAPI",
                "https://iot-api.acceleronix.io/v2/binding",
                BearerAuth(""), TRUE, 6),
      ApiConfig("deviceshadow_enterprise", "Device Shadow (Enterprise)",
                "https://iot-api.acceleronix.io/v2/deviceshadow/v2/api-docs?group=device-shadow-enterpriseapi",
                "https://iot-api.acceleronix.io/v2/deviceshadow",
                BearerAuth(""), TRUE, 6),
      ApiConfig("product_enterprise", "Product Management (Enterprise)",
                "https://iot-api.acceleronix.io/v2/quecproductmgr/v2/api-docs?group=product-mgr-enterpriseapi",
                "https://iot-api.acceleronix.io/v2/quecproductmgr",
                BearerAuth(""), TRUE, 6),
      ApiConfig("tsl_enterprise", "Thing Specification Language (Enterprise)",
                "https://iot-api.acceleronix.io/v2/quectsl/v2/api-docs?group=enterpriseApi",
                "https://iot-api.acceleronix.io/v2/quectsl",
                BearerAuth(""), TRUE, 6)
    >>, "info", DefaultPort, "0.0.0.0")

\* fullConfig of config.ts
fullConfig ==
    Config(<<
      ApiConfig("device_mgr_enterprise", "IoT Device Manager (Enterprise)",
                "https://iot-api.acceleronix.io/v2/devicemgr/v2/api-docs?group=device-mgr-enterpriseapi",
                "https://iot-api.acceleronix.io/v2/devicemgr",
                BearerAuth(""), TRUE, 8),
      ApiConfig("app_service_enduser", "App Service (EndUser)",
                "https://iot-api.acceleronix.io/v2/app/v2/api-docs?group=AppServiceEndUserAPI",
                "https://iot-api.acceleronix.io/v2/app",
                BearerAuth(""), TRUE, 6),
      ApiConfig("binding_enduser", "Binding Service (EndUser)",
                "https://iot-api.acceleronix.io/v2/binding/v2/api-docs?group=BindingServiceEnduserAPI",
                "https://iot-api.acceleronix.io/v2/binding",
                BearerAuth(""), TRUE, 6),
      ApiConfig("binding_enterprise", "Binding Service (Enterprise)",
                "https://iot-api.acceleronix.io/v2/binding/v2/api-docs?group=BindingServiceEnterpriseAPI",
                "https://iot-api.acceleronix.io/v2/binding",
                BearerAuth(""), TRUE, 6),
      ApiConfig("devicegroup_enduser", "DeviceGroup Service (EndUser)",
                "https://iot-api.acceleronix.io/v2/devicegroup/v2/api-docs?group=DeviceGroupServiceEnduserAPI",
                "https://iot-api.acceleronix.io/v2/devicegroup",
                BearerAuth(""), TRUE, 5),
      ApiConfig("deviceshadow_enterprise", "Device Shadow (Enterprise)",
                "https://iot-api.acceleronix.io/v2/deviceshadow/v2/api-docs?group=device-shadow-enterpriseapi",
                "https://iot-api.acceleronix.io/v2/deviceshadow",
                BearerAuth(""), TRUE, 6),
      ApiConfig("enduser_enduser", "EndUser Service (EndUser)",
                "https://iot-api.acceleronix.io/v2/enduser/v2/api-docs?group=EnduserServiceEnduserAPI",
                "https://iot-api.acceleronix.io/v2/enduser",
                BearerAuth(""), TRUE, 5),
      ApiConfig("family_enduser", "Family Service (EndUser)",
                "https://iot-api.acceleronix.io/v2/family/v2/api-docs?group=FamilyServiceEnduserAPI",
                "https://iot-api.acceleronix.io/v2/family",
                BearerAuth(""), TRUE, 5),
      ApiConfig("i18n_enduser", "I18n Service (EndUser)",
                "https://iot-api.acceleronix.io/v2/i18n/v2/api-docs?group=I18nServiceEndUserAPI",
                "https://iot-api.acceleronix.io/v2/i18n",
                BearerAuth(""), TRUE, 4),
      ApiConfig("matter_enduser", "Matter Service (EndUser)",
                "https://iot-api.acceleronix.io/v2/matter/v2/api-docs?group=MatterServiceEnduserAPI",
                "https://iot-api.acceleronix.io/v2/matter",
                BearerAuth(""), TRUE, 5),
      ApiConfig("category_enduser", "Category Management (EndUser)",
                "https://iot-api.acceleronix.io/v2/category/v2/api-docs?group=category-mgr-enduserapi",
                "https://iot-api.acceleronix.io/v2/category",
                BearerAuth(""), TRUE, 5),
      ApiConfig("datastorage_enduser", "Data Storage Service (EndUser)",
                "https://iot-api.acceleronix.io/v2/quecdatastorage/v2/api-docs?group=DataStorageEnduserAPI",
                "https://iot-api.acceleronix.io/v2/quecdatastorage",
                BearerAuth(""), TRUE, 5),
      ApiConfig("globalbootstrap_open", "Global Bootstrap Service (Open)",
                "https://iot-api.acceleronix.io/v2/globalbootstrap/v2/api-docs?group=global-bootrap-openapi",
                "https://iot-api.acceleronix.io/v2/globalbootstrap",
                BearerAuth(""), TRUE, 3),
      ApiConfig("tsl_enterprise", "Thing Specification Language (Enterprise)",
                "https://iot-api.acceleronix.io/v2/quectsl/v2/api-docs?group=enterpriseApi",
                "https://iot-api.acceleronix.io/v2/quectsl",
                BearerAuth(""), TRUE, 6),
      ApiConfig("ota_enduser", "OTA Service (EndUser)",
                "https://iot-api.acceleronix.io/v2/quecota/v2/api-docs?group=OTAServiceEnduserAPI",
                "https://iot-api.acceleronix.io/v2/quecota",
                BearerAuth(""), TRUE, 5),
      ApiConfig("product_enterprise", "Product Management (Enterprise)",
                "https://iot-api.acceleronix.io/v2/quecproductmgr/v2/api-docs?group=product-mgr-enterpriseapi",
                "https://iot-api.acceleronix.io/v2/quecproductmgr",
                BearerAuth(""), TRUE, 6),
      ApiConfig("cep_enduser", "Rule Engine (EndUser)",
                "https://iot-api.acceleronix.io/v2/cep/v2/api-docs?group=CepServiceEnduserApi",
                "https://iot-api.acceleronix.io/v2/cep",
                BearerAuth(""), TRUE, 5),
      ApiConfig("weather_enduser", "Weather Service (EndUser)",
                "https://iot-api.acceleronix.io/v2/quecweather/v2/api-docs?group=weather-enduserapi",
                "https://iot-api.acceleronix.io/v2/quecweather",
                BearerAuth(""), TRUE, 4)
    >>, "info", DefaultPort, "0.0.0.0")

\* defaultConfig of part_004
defaultConfigWorkers ==
    Config(<<
      ApiConfig("iot_device_mgr", "IoT Device Manager API",
                "https://iot-api.acceleronix.io/v2/devicemgr/v2/api-docs?group=device-mgr-enterpriseapi",
                "https://iot-api.acceleronix.io/v2/devicemgr",
                BearerAuth(""), TRUE, 15),
      ApiConfig("petstore", "Pet Store API (Demo)",
                "https://petstore.swagger.io/v2/swagger.json",
                "https://petstore.swagger.io/v2",
                ApiKeyAuth("special-key", "api_key", "header"), FALSE, 5)
    >>, "info", DefaultPort, "0.0.0.0")

\* What loadConfig resolves to, or that it rejected.
Loaded(cfg) == [threw |-> FALSE, loaded |-> TRUE, config |-> cfg]
LoadRejected == [threw |-> TRUE, loaded |-> TRUE, config |-> Config(<<>>, Undefined, 0, Undefined)]
NotLoaded == [threw |-> FALSE, loaded |-> FALSE, config |-> Config(<<>>, Undefined, 0, Undefined)]

\* A faulty loadConfig whose catch rethrows; C13_LoadConfigFallsBack tells it
\* from loadConfig.
loadConfig_Rethrows(data) ==
    IF data.given
    THEN IF ConfigSchemaAccepts(data)
         THEN Loaded(ConfigSchemaOutput(data))
         ELSE LoadRejected
    ELSE Loaded(fullConfig)

\* loadConfig of config.ts: data that is given is parsed, no data gives
\* fullConfig, and the catch returns defaultConfig.
loadConfig(data) ==
    IF data.given
    THEN IF ConfigSchemaAccepts(data)
         THEN Loaded(ConfigSchemaOutput(data))
         ELSE Loaded(defaultConfig)
    ELSE Loaded(fullConfig)

\* The raw form of defaultConfig of part_004, as ConfigSchema.parse reads it.
RawEntry(apiConfig) ==
    [name |-> apiConfig.name, title |-> apiConfig.title, swaggerUrl |-> apiConfig.swaggerUrl,
     baseUrl |-> apiConfig.baseUrl, auth |-> apiConfig.auth,
     enabled |-> JsBoolean(apiConfig.enabled), maxTools |-> JsNumber(apiConfig.maxTools)]

RawConfig(cfg) ==
    [given |-> TRUE, hasApis |-> TRUE,
     apis |-> [i \in 1..Len(cfg.apis) |-> RawEntry(cfg.apis[i])],
     logLevel |-> cfg.log.level, hasServer |-> TRUE]

\* loadConfig of part_004: configData || defaultConfig is parsed, and the
\* catch returns defaultConfig.
loadConfigWorkers(data) ==
    LET parsed == IF data.given THEN data ELSE RawConfig(defaultConfigWorkers)
    IN  IF ConfigSchemaAccepts(parsed)
        THEN Loaded(ConfigSchemaOutput(parsed))
        ELSE Loaded(defaultConfigWorkers)

-----------------------------------------------------------------------------
(* The catalog: a Map in insertion order. *)

MapHas(map, name) == \E i \in 1..Len(map) : map[i].name = name

MapGet(map, name) == map[CHOOSE i \in 1..Len(map) : map[i].name = name].instance

\* Map.prototype.set: a new key is appended, an existing key keeps its place.
MapSet(map, name, instance) ==
    IF MapHas(map, name)
    THEN [i \in 1..Len(map) |->
            IF map[i].name = name THEN [name |-> name, instance |-> instance] ELSE map[i]]
    ELSE Append(map, [name |-> name, instance |-> instance])

MapKeys(map) == [i \in 1..Len(map) |-> map[i].name]

extractSecuritySchemes(swaggerSpec) == swaggerSpec.securitySchemes

-----------------------------------------------------------------------------
(* Endpoint indexer (index.ts). *)

Endpoint(cfg, path, method, op) ==
    [apiName |-> cfg.name, apiTitle |-> cfg.title, method |-> toUpperCase(method),
     path |-> path, operationId |-> op.operationId, summary |-> op.summary,
     description |-> op.description, parameters |-> op.parameters, operation |-> op]

\* The inner loop over Object.entries(pathItem): st = [endpoints, endpointCount].
RECURSIVE CollectPathItem(_, _, _, _)
CollectPathItem(cfg, path, entries, st) ==
    IF Len(entries) = 0 THEN st
    ELSE LET e == Head(entries)
         IN  IF e.key = "$ref" \/ e.isNull \/ st.endpointCount >= cfg.maxTools
             THEN CollectPathItem(cfg, path, Tail(entries), st)
             ELSE CollectPathItem(cfg, path, Tail(entries),
                    [endpoints |-> Append(st.endpoints, Endpoint(cfg, path, e.key, e.operation)),
                     endpointCount |-> st.endpointCount + 1])

\* The outer loop over Object.entries(swaggerSpec.paths).
RECURSIVE CollectPaths(_, _, _)
CollectPaths(cfg, paths, st) ==
    IF Len(paths) = 0 THEN st
    ELSE LET p == Head(paths)
         IN  IF p.isNull \/ st.endpointCount >= cfg.maxTools THEN st
             ELSE CollectPaths(cfg, Tail(paths), CollectPathItem(cfg, p.path, p.pathItem, st))

\* collectApiEndpoints: the flat list after indexing one instance.
collectApiEndpoints(endpoints, apiInstance) ==
    IF ~apiInstance.swaggerSpec.hasPaths THEN endpoints
    ELSE CollectPaths(apiInstance.config, apiInstance.swaggerSpec.paths,
                      [endpoints |-> endpoints, endpointCount |-> 0]).endpoints

getApiEndpointCount(endpoints, apiName) ==
    Cardinality({i \in 1..Len(endpoints) : endpoints[i].apiName = apiName})

-----------------------------------------------------------------------------
(* Per-endpoint tool registration (part_003). *)

\* McpServer.tool: registering a name twice throws.
ServerTool(st, toolName) ==
    IF \E i \in 1..Len(st.tools) : st.tools[i] = toolName
    THEN [st EXCEPT !.threw = TRUE]
    ELSE [st EXCEPT !.tools = Append(st.tools, toolName), !.toolCount = st.toolCount + 1]

ToolName(cfg, path, method, op) ==
    LET baseOperationId ==
            OrElse(op.operationId, method \o "_" \o SanitizePath(path))
    IN  cfg.name \o "_" \o baseOperationId

\* The inner loop; st = [tools, toolCount, threw].  A throw ends the loops.
RECURSIVE RegisterPathItem(_, _, _, _)
RegisterPathItem(cfg, path, entries, st) ==
    IF Len(entries) = 0 \/ st.threw THEN st
    ELSE LET e == Head(entries)
         IN  IF e.key = "$ref" \/ e.isNull \/ st.toolCount >= cfg.maxTools
             THEN RegisterPathItem(cfg, path, Tail(entries), st)
             ELSE RegisterPathItem(cfg, path, Tail(entries),
                    ServerTool(st, ToolName(cfg, path, e.key, e.operation)))

RECURSIVE RegisterPaths(_, _, _)
RegisterPaths(cfg, paths, st) ==
    IF Len(paths) = 0 \/ st.threw THEN st
    ELSE LET p == Head(paths)
         IN  IF p.isNull \/ st.toolCount >= cfg.maxTools THEN st
             ELSE RegisterPaths(cfg, Tail(paths), RegisterPathItem(cfg, p.path, p.pathItem, st))

\* registerApiTools: [tools, toolCount, threw] after registering one instance.
registerApiTools(tools, apiInstance) ==
    IF ~apiInstance.swaggerSpec.hasPaths
    THEN [tools |-> tools, toolCount |-> 0, threw |-> FALSE]
    ELSE RegisterPaths(apiInstance.config, apiInstance.swaggerSpec.paths,
                       [tools |-> tools, toolCount |-> 0, threw |-> FALSE])

\* getApiToolCount of part_003: a placeholder.
getApiToolCount(apiName) == 5

-----------------------------------------------------------------------------
(* Tool invocations: inputs, responses and the upstream's answers. *)

\* One field of a parameters object, in insertion order; type is the
\* JavaScript typeof of the value.
Field(key, value) == [key |-> key, value |-> value, type |-> "string"]
NumberField(key, value) == [key |-> key, value |-> value, type |-> "number"]

\* A field that is present with the value undefined.
UndefinedField(key) == [key |-> key, value |-> Undefined, type |-> "undefined"]

HasField(input, key) == \E i \in 1..Len(input) : input[i].key = key

\* input[key]
FieldValue(input, key) ==
    IF HasField(input, key)
    THEN input[CHOOSE i \in 1..Len(input) : input[i].key = key].value
    ELSE Undefined

\* What a handler produces: threw is TRUE when the handler's promise rejects;
\* content holds the texts of the returned content items; blocks holds, for
\* a search result, one record per rendered endpoint block.
Response(content) == [threw |-> FALSE, content |-> content, blocks |-> <<>>]
Thrown(message) == [threw |-> TRUE, content |-> <<message>>, blocks |-> <<>>]

NoCall == [tool |-> "none"]
NoResponse == Response(<<>>)

\* What the upstream does with a request: an HTTP response, or none.
HttpResponse(status, data) == [hasResponse |-> TRUE, status |-> status, data |-> data]
NetworkError == [hasResponse |-> FALSE, status |-> 0, data |-> "Network Error"]

Upstreams ==
    { HttpResponse(200, "{\"ok\": true}"), HttpResponse(404, "{\"error\": \"nope\"}"),
      NetworkError }

\* axios' default validateStatus: the promise resolves on 2xx and rejects otherwise.
AxiosResolves(upstream) ==
    upstream.hasResponse /\ upstream.status >= 200 /\ upstream.status < 300

-----------------------------------------------------------------------------
(* Request Executor (index.ts). *)

HeaderSet(headers, name, value) ==
    [n \in DOMAIN headers \cup {name} |-> IF n = name THEN value ELSE headers[n]]

\* The printable ASCII characters from code 32 on, for btoa (a tab stands
\* in the place of the backquote, which a TLA+ string cannot hold).
Ascii ==
    " !\"#$%&'()*+,-./0123456789:;<=>?@ABCDEFGHIJKLMNOPQRSTUVWXYZ[\\]^_\tabcdefghijklmnopqrstuvwxyz{|}~"

CharCode(c) == IndexOf(Ascii, c) + 31

Base64Alphabet == "ABCDEFGHIJKLMNOPQRSTUVWXYZabcdefghijklmnopqrstuvwxyz0123456789+/"

Sextet(n) == CharAt(Base64Alphabet, n + 1)

RECURSIVE btoa(_)
btoa(s) ==
    IF Len(s) = 0 THEN ""
    ELSE LET b1 == CharCode(CharAt(s, 1))
             b2 == IF Len(s) >= 2 THEN CharCode(CharAt(s, 2)) ELSE 0
             b3 == IF Len(s) >= 3 THEN CharCode(CharAt(s, 3)) ELSE 0
             n  == b1 * 65536 + b2 * 256 + b3
             c1 == Sextet(n \div 262144)
             c2 == Sextet((n \div 4096) % 64)
             c3 == IF Len(s) >= 2 THEN Sextet((n \div 64) % 64) ELSE "="
             c4 == IF Len(s) >= 3 THEN Sextet(n % 64) ELSE "="
         IN  c1 \o c2 \o c3 \o c4 \o (IF Len(s) > 3 THEN btoa(SubSeq(s, 4, Len(s))) ELSE "")

\* The token of the bearer branch: the input's auth_token, else the auth's.
BearerToken(auth, input) == OrElse(FieldValue(input, "auth_token"), auth.token)

addAuthHeaders(headers, auth, input) ==
    CASE auth.type = "bearer" ->
            LET token == BearerToken(auth, input)
            IN  IF Truthy(token)
                THEN HeaderSet(headers, "Authorization", "Bearer " \o token)
                ELSE headers
      [] auth.type = "apiKey" ->
            LET apiKey == OrElse(FieldValue(input, "api_key"), auth.apiKey)
            IN  IF Truthy(apiKey) /\ Truthy(auth.apiKeyName) /\ auth.apiKeyIn = "header"
                THEN HeaderSet(headers, auth.apiKeyName, apiKey)
                ELSE headers
      [] auth.type = "basic" ->
            LET username == OrElse(FieldValue(input, "username"), auth.username)
                password == OrElse(FieldValue(input, "password"), auth.password)
            IN  IF Truthy(username) /\ Truthy(password)
                THEN HeaderSet(headers, "Authorization",
                               "Basic " \o btoa(username \o ":" \o password))
                ELSE headers
      [] OTHER -> headers

excluded == {"auth_token", "api_key", "username", "password"}

\* A faulty filter that lets the empty string through;
\* C21_ParameterPartition tells it from KeepsField.
KeepsField_KeepsEmpty(e) == e.key \notin excluded /\ e.type # "undefined"

\* The fields extractQueryParams keeps.
KeepsField(e) ==
    /\ e.key \notin excluded
    /\ e.type # "undefined"
    /\ ~(e.type = "string" /\ e.value = "")

extractQueryParams(input) == SelectSeq(input, KeepsField)

extractBodyParams(input) == extractQueryParams(input)

\* The forEach over Object.entries(input) that fills the placeholders.
RECURSIVE SubstitutePath(_, _)
SubstitutePath(url, input) ==
    IF Len(input) = 0 THEN url
    ELSE LET e == Head(input)
             placeholder == "{" \o e.key \o "}"
         IN  IF e.type = "string" /\ Includes(url, placeholder)
             THEN SubstitutePath(ReplaceFirst(url, placeholder, encodeURIComponent(e.value)),
                                 Tail(input))
             ELSE SubstitutePath(url, Tail(input))

\* The request executeApiCall hands to axios; effectiveAuth is
\* effectiveConfig.auth, the auth its headers were built from.
BuildRequest(cfg, path, method, input, authOverride) ==
    LET headers == addAuthHeaders([n \in {"Content-Type"} |-> "application/json"],
                                  authOverride, input)
        url == SubstitutePath(cfg.baseUrl \o path, input)
        isGet == toLowerCase(method) = "get"
    IN  [method |-> method, url |-> url, headers |-> headers,
         effectiveAuth |-> authOverride,
         has |-> IF isGet THEN "params" ELSE "data",
         params |-> IF isGet THEN extractQueryParams(input) ELSE <<>>,
         data |-> IF isGet THEN <<>> ELSE extractBodyParams(input)]

\* The catch of executeApiCall: an error that carries a response.
\* A faulty classification that takes every failure for an upstream answer;
\* C7_ThreeOutcomes tells it from IsUpstreamError.
IsUpstreamError_EveryFailure(upstream) == TRUE

IsUpstreamError(upstream) == upstream.hasResponse

\* The content executeApiCall returns for the upstream's answer.  The body is
\* carried as the text JSON.stringify(data, null, 2) prints.
RenderResult(cfg, path, method, url, upstream) ==
    IF AxiosResolves(upstream)
    THEN << "**" \o cfg.title \o "** API Call Successful",
            "**Endpoint**: " \o toUpperCase(method) \o " " \o path,
            "**Full URL**: " \o url,
            "**Status**: " \o ToString(upstream.status),
            "**Response**:\njson\n" \o upstream.data \o "\n" >>
    ELSE IF IsUpstreamError(upstream)
    THEN << "**" \o cfg.title \o "** API Call Failed",
            "**Endpoint**: " \o toUpperCase(method) \o " " \o path,
            "**Full URL**: " \o cfg.baseUrl \o path,
            "**Status**: " \o ToString(upstream.status),
            "**Error Response**:\njson\n" \o upstream.data \o "\n" >>
    ELSE << "**" \o cfg.title \o "** API Call Failed",
            "**Endpoint**: " \o toUpperCase(method) \o " " \o path,
            "**Base URL**: " \o cfg.baseUrl,
            "**Error**: AxiosError: " \o upstream.data >>

\* executeApiCall: the response and the requests issued.
executeApiCall(apiInstance, path, method, input, authOverride, upstream) ==
    LET request == BuildRequest(apiInstance.config, path, method, input, authOverride)
    IN  [response |-> Response(RenderResult(apiInstance.config, path, method,
                                            request.url, upstream)),
         requests |-> <<request>>]

-----------------------------------------------------------------------------
(* Endpoint Search and the call mode of search_api (index.ts). *)

\* A faulty searchable text that keeps the fields' case;
\* C10_SearchBySearchedFields tells it from searchableText.
searchableText_KeepsCase(endpoint) ==
    Join(<<endpoint.path, endpoint.summary, endpoint.description,
           endpoint.operationId, endpoint.apiTitle, endpoint.apiName>>, " ")

searchableText(endpoint) ==
    toLowerCase(Join(<<endpoint.path, endpoint.summary, endpoint.description,
                       endpoint.operationId, endpoint.apiTitle, endpoint.apiName>>, " "))

Matches(endpoint, query) == Includes(searchableText(endpoint), toLowerCase(query))

\* A faulty filter that returns the matches last-indexed first;
\* C24_SearchInCatalogOrder tells it from matchingEndpoints.
matchingEndpoints_Reversed(endpoints, query) ==
    LET matching == SelectSeq(endpoints, LAMBDA endpoint : Matches(endpoint, query))
    IN  [i \in 1..Len(matching) |-> matching[Len(matching) + 1 - i]]

\* matchingEndpoints: the filter keeps the list's order.
matchingEndpoints(endpoints, query) ==
    SelectSeq(endpoints, LAMBDA endpoint : Matches(endpoint, query))

\* One rendered block: the fields the block prints and the call it proposes.
Block(endpoint) ==
    [apiTitle |-> endpoint.apiTitle, method |-> endpoint.method, path |-> endpoint.path,
     summary |-> OrElse(endpoint.summary, "No summary"),
     description |-> OrElse(endpoint.description, "No description"),
     apiName |-> endpoint.apiName, parameters |-> endpoint.parameters]

searchEndpoints(endpoints, query) ==
    LET matching == matchingEndpoints(endpoints, query)
        shown == SubSeq(matching, 1, Min(DisplayLimit, Len(matching)))
    IN  IF Len(matching) = 0
        THEN Response(<< "**No endpoints found for query: \"" \o query \o "\"**\n\n"
                         \o "Try searching for terms like: product, device, user, binding, group, etc." >>)
        ELSE [threw |-> FALSE,
              content |-> << "**Found " \o ToString(Len(matching))
                             \o " matching endpoints for \"" \o query \o "\":**\n\n" >>
                          \o (IF Len(matching) > DisplayLimit
                              THEN << "*Showing first 10 results. Total found: "
                                      \o ToString(Len(matching)) \o "*" >>
                              ELSE <<>>),
              blocks |-> [i \in 1..Len(shown) |-> Block(shown[i])]]

\* allEndpoints.find of callEndpoint: the index of the first match, 0 for none.
FindEndpoint(endpoints, apiName, method, path) ==
    LET hits == {i \in 1..Len(endpoints) :
                    /\ endpoints[i].apiName = apiName
                    /\ endpoints[i].method = toUpperCase(method)
                    /\ endpoints[i].path = path}
    IN  IF hits = {} THEN 0 ELSE CHOOSE i \in hits : \A j \in hits : i <= j

\* A faulty not-found result that names no loaded API; C8_NotFoundResults
\* tells it from ApiNotFound.
ApiNotFound_NoNames(map, apiName) ==
    Response(<< "**API not found**: " \o apiName >>)

ApiNotFound(map, apiName) ==
    Response(<< "**API not found**: " \o apiName \o "\n\n"
                \o "Available APIs: " \o Join(MapKeys(map), ", ") >>)

EndpointNotFound(apiName, method, path) ==
    Response(<< "**Endpoint not found**: " \o toUpperCase(method) \o " " \o path \o "\n\n"
                \o "API: " \o apiName \o "\n"
                \o "Use search_api with a query to find available endpoints." >>)

\* A faulty authConfig that drops the caller's token; C5_BearerHeader tells
\* it from AuthConfig.
AuthConfig_DropsToken(auth, authToken) == auth

\* A faulty authConfig that holds nothing but the caller's token;
\* C22_OverrideReplacesToken tells it from AuthConfig.
AuthConfig_OnlyOverride(auth, authToken) ==
    IF Truthy(authToken)
    THEN Auth(Undefined, authToken, Undefined, Undefined, Undefined, Undefined, Undefined)
    ELSE auth

\* authConfig of callEndpoint: a copy of the configured auth, its token
\* replaced by a truthy authToken.
AuthConfig(auth, authToken) ==
    IF Truthy(authToken) THEN [auth EXCEPT !.token = authToken] ELSE auth

\* A faulty preparation of authConfig that writes the caller's token into the
\* instance's own auth object; C15_InvocationsLeaveCatalog tells it from
\* InstancesAfterCall.
InstancesAfterCall_SharedAuth(map, apiName, authToken) ==
    IF Truthy(authToken)
    THEN MapSet(map, apiName,
                [MapGet(map, apiName) EXCEPT !.config.auth.token = authToken])
    ELSE map

\* The Map once callEndpoint has prepared authConfig: { ...config.auth } is
\* a new object, so the assignment of the token does not reach the instance.
InstancesAfterCall(map, apiName, authToken) == map

\* callEndpoint: the response, the requests issued, and the Map it leaves.
callEndpoint(map, endpoints, apiName, method, path, parameters, authToken, upstream) ==
    IF ~MapHas(map, apiName)
    THEN [response |-> ApiNotFound(map, apiName), requests |-> <<>>, instances |-> map]
    ELSE IF FindEndpoint(endpoints, apiName, method, path) = 0
    THEN [response |-> EndpointNotFound(apiName, method, path), requests |-> <<>>,
          instances |-> map]
    ELSE LET apiInstance == MapGet(map, apiName)
             r == executeApiCall(apiInstance, path, toLowerCase(method), parameters,
                                 AuthConfig(apiInstance.config.auth, authToken), upstream)
         IN  [response |-> r.response, requests |-> r.requests,
              instances |-> InstancesAfterCall(map, apiName, authToken)]

InvalidUsage ==
    Response(<< "**Invalid Usage**\n\n"
                \o "**Search Mode**: Provide only query parameter\n"
                \o "Example: {\"query\": \"product\"}\n\n"
                \o "**Call Mode**: Provide api_name, method, and path\n"
                \o "Example: {\"api_name\": \"product_enterprise\", \"method\": \"GET\", \"path\": \"/v2/project/{projectId}/product/overview\", \"parameters\": {\"projectId\": \"123\"}}" >>)

\* A faulty dispatch where a query alone decides for the search;
\* C9_Dispatch tells it from Mode.
Mode_QueryDecides(input) ==
    IF Truthy(input.query)
    THEN "search"
    ELSE IF Truthy(input.api_name) /\ Truthy(input.method) /\ Truthy(input.path)
    THEN "call"
    ELSE "invalid"

\* The mode the search_api handler takes for an input.
Mode(input) ==
    IF Truthy(input.query) /\ ~Truthy(input.api_name) /\ ~Truthy(input.method)
          /\ ~Truthy(input.path)
    THEN "search"
    ELSE IF Truthy(input.api_name) /\ Truthy(input.method) /\ Truthy(input.path)
    THEN "call"
    ELSE "invalid"

\* The search_api handler; parameters || {} is the empty sequence.
search_api(map, endpoints, input, upstream) ==
    CASE Mode(input) = "search" ->
            [response |-> searchEndpoints(endpoints, input.query), requests |-> <<>>,
             instances |-> map]
      [] Mode(input) = "call" ->
            callEndpoint(map, endpoints, input.api_name, input.method, input.path,
                         input.parameters, input.auth_token, upstream)
      [] OTHER -> [response |-> InvalidUsage, requests |-> <<>>, instances |-> map]

-----------------------------------------------------------------------------
(* The management tools. *)

\* The count list_apis prints for an API.
ApiCount(v, endpoints, apiName) ==
    IF v = "router" THEN getApiEndpointCount(endpoints, apiName) ELSE getApiToolCount(apiName)

\* One block of list_apis; reading spec.info.version needs an object spec.info.
ApiBlock(v, endpoints, entry) ==
    LET spec == entry.instance.swaggerSpec
        cfg == entry.instance.config
    IN  "**" \o cfg.title \o "** (" \o entry.name \o ")\n"
        \o "Base URL: " \o cfg.baseUrl \o "\n"
        \o "Version: " \o spec.version \o "\n"
        \o "Description: "
        \o (IF Truthy(spec.description)
            THEN SubSeq(spec.description, 1, Min(100, Len(spec.description)))
            ELSE "N/A") \o "...\n"
        \o (IF v = "router" THEN "Endpoints: " ELSE "Tools: ")
        \o ToString(ApiCount(v, endpoints, entry.name)) \o "\n\n"

RECURSIVE ApiBlocks(_, _, _)
ApiBlocks(v, endpoints, map) ==
    IF Len(map) = 0 THEN ""
    ELSE ApiBlock(v, endpoints, Head(map)) \o ApiBlocks(v, endpoints, Tail(map))

\* The list_apis handler: the loop throws a TypeError at the first instance
\* whose document's info is null.
list_apis(v, endpoints, map) ==
    IF \E i \in 1..Len(map) : ~map[i].instance.swaggerSpec.hasInfo
    THEN Thrown("TypeError: Cannot read properties of null (reading 'version')")
    ELSE IF Len(map) = 0
    THEN Response(<< "No APIs are currently loaded." >>)
    ELSE Response(<< "Available APIs:\n\n" \o ApiBlocks(v, endpoints, map) >>)

test_connection(v, endpoints, map, message) ==
    Response(<< "Multi-API Swagger MCP Server is working!\nMessage: " \o message
                \o "\nActive APIs: " \o ToString(Len(map))
                \o (IF v = "router"
                    THEN "\nTotal Endpoints: " \o ToString(Len(endpoints))
                    ELSE "") >>)

-----------------------------------------------------------------------------
(* init() and initializeApi. *)

\* registerManagementTools
ManagementTools(v) ==
    IF v = "router" THEN <<"list_apis", "test_connection", "search_api">>
    ELSE <<"list_apis", "test_connection">>

\* simplifyOperationId has not returned.
NotReturned == [type |-> "undefined", value |-> Undefined]

\* simplifyOperationId is not being called.
NormalizerIdle == rawOperationId = Undefined /\ normalizedName = NotReturned

\* null
NullServer == 0

\* The Workers entry point is not serving.
WorkerIdle == swaggerServer = NullServer /\ servers = <<>> /\ fetches = <<>>

\* loadConfig was called without data.
NoConfigData ==
    [given |-> FALSE, hasApis |-> FALSE, apis |-> <<>>, logLevel |-> Undefined,
     hasServer |-> FALSE]

\* The state when init() has loaded the configuration and registered the
\* management tools.  The loop is modelled for every list of entries the
\* schema admits, not only for the built-in lists.
Init ==
    /\ NormalizerIdle
    /\ WorkerIdle
    /\ configData = NoConfigData
    /\ loadedConfig = NotLoaded
    /\ variant \in {"router", "tools"}
    /\ config \in ConfigLists \cup AuthVariantLists \cup BigLists
    /\ pc = "loop"
    /\ apiIdx = 1
    /\ apiInstances = <<>>
    /\ allEndpoints = <<>>
    /\ registeredTools = ManagementTools(variant)
    /\ parseCalls = <<>>
    /\ parseFailed = {}
    /\ loadErrors = {}
    /\ lastCall = NoCall
    /\ lastResponse = NoResponse
    /\ lastRequests = <<>>

InLoop == pc = "loop" /\ apiIdx <= Len(config)

\* init(): a disabled entry is logged and skipped.
SkipDisabled ==
    /\ InLoop
    /\ ~config[apiIdx].enabled
    /\ apiIdx' = apiIdx + 1
    /\ UNCHANGED <<normalizerVars, workerVars, configData, loadedConfig, variant, config, pc, apiInstances, allEndpoints, registeredTools,
                   parseCalls, parseFailed, loadErrors, lastCall, lastResponse, lastRequests>>

\* initializeApi when SwaggerParser.parse rejects: the catch logs the error.
InitializeApiParseFails ==
    /\ InLoop
    /\ config[apiIdx].enabled
    /\ parseCalls' = Append(parseCalls, apiIdx)
    /\ parseFailed' = parseFailed \cup {apiIdx}
    /\ loadErrors' = loadErrors \cup {apiIdx}
    /\ apiIdx' = apiIdx + 1
    /\ UNCHANGED <<normalizerVars, workerVars, configData, loadedConfig, variant, config, pc, apiInstances, allEndpoints, registeredTools,
                   lastCall, lastResponse, lastRequests>>

\* The instance initializeApi creates from a parsed document.
NewInstance(apiConfig) ==
    LET swaggerSpec == Document(apiConfig.swaggerUrl)
    IN  [config |-> apiConfig, swaggerSpec |-> swaggerSpec,
         securitySchemes |-> extractSecuritySchemes(swaggerSpec)]

\* What initializeApi stores in the Map once the document is parsed.
StoreInstance(map, apiConfig) == MapSet(map, apiConfig.name, NewInstance(apiConfig))

\* initializeApi of index.ts when parse resolves: the instance is stored, then
\* its endpoints are collected.
InitializeApiRouter ==
    /\ InLoop
    /\ variant = "router"
    /\ config[apiIdx].enabled
    /\ parseCalls' = Append(parseCalls, apiIdx)
    /\ apiInstances' = StoreInstance(apiInstances, config[apiIdx])
    /\ allEndpoints' = collectApiEndpoints(allEndpoints, NewInstance(config[apiIdx]))
    /\ apiIdx' = apiIdx + 1
    /\ UNCHANGED <<normalizerVars, workerVars, configData, loadedConfig, variant, config, pc, registeredTools, parseFailed, loadErrors,
                   lastCall, lastResponse, lastRequests>>

\* initializeApi of part_003 when parse resolves: the instance is stored, then
\* its tools are registered; a throw of server.tool is caught and logged.
InitializeApiTools ==
    /\ InLoop
    /\ variant = "tools"
    /\ config[apiIdx].enabled
    /\ parseCalls' = Append(parseCalls, apiIdx)
    /\ apiInstances' = StoreInstance(apiInstances, config[apiIdx])
    /\ LET r == registerApiTools(registeredTools, NewInstance(config[apiIdx]))
       IN  /\ registeredTools' = r.tools
           /\ loadErrors' = IF r.threw THEN loadErrors \cup {apiIdx} ELSE loadErrors
    /\ apiIdx' = apiIdx + 1
    /\ UNCHANGED <<normalizerVars, workerVars, configData, loadedConfig, variant, config, pc, allEndpoints, parseFailed,
                   lastCall, lastResponse, lastRequests>>

\* init(): the loop is over and init() returns.
InitDone ==
    /\ pc = "loop"
    /\ apiIdx > Len(config)
    /\ pc' = "done"
    /\ UNCHANGED <<normalizerVars, workerVars, configData, loadedConfig, variant, config, apiIdx, apiInstances, allEndpoints, registeredTools,
                   parseCalls, parseFailed, loadErrors, lastCall, lastResponse, lastRequests>>

Load == SkipDisabled \/ InitializeApiParseFails \/ InitializeApiRouter
          \/ InitializeApiTools \/ InitDone

-----------------------------------------------------------------------------
(* Tool invocations.  The transport serves requests once init() has        *)
(* returned.                                                               *)

SearchApiInput(query, api_name, method, path, parameters, auth_token) ==
    [query |-> query, api_name |-> api_name, method |-> method, path |-> path,
     parameters |-> parameters, auth_token |-> auth_token]

\* Every way of leaving out, emptying or populating the four fields the
\* handler dispatches on.
DispatchInputs ==
    { SearchApiInput(q, a, m, p, <<>>, Undefined) :
        q \in {Undefined, "", "item"}, a \in {Undefined, "", "demo"},
        m \in {Undefined, "", "GET"}, p \in {Undefined, "", "/items/{id}"} }

SearchInputs ==
    { SearchApiInput(q, Undefined, Undefined, Undefined, <<>>, Undefined) :
        q \in {"item", "ITEM", "Order", "demo", "zzz"} }

ParameterSets ==
    { <<>>,
      << Field("id", "42") >>,
      << Field("id", "a b"), Field("q", "x") >>,
      << NumberField("id", "7") >>,
      << Field("auth_token", "V"), Field("id", "42") >>,
      << Field("q", ""), Field("api_key", "k2") >>,
      << Field("username", "bob"), UndefinedField("q") >> }

CallInputs ==
    { SearchApiInput(Undefined, a, m, p, ps, t) :
        a \in {"demo", "shop", "nope"}, m \in {"GET", "post"},
        p \in {"/items/{id}", "/a/b", "/none"}, ps \in ParameterSets,
        t \in {Undefined, "U"} }
    \cup
    { SearchApiInput(Undefined, "demo", "GET", "/items/{id}", ps, "") :
        ps \in {<<>>, << Field("id", "42") >>} }

SearchApiInputs == DispatchInputs \cup SearchInputs \cup CallInputs

\* The inputs for which the handler reaches axios.
ReachesUpstream(input) ==
    /\ Mode(input) = "call"
    /\ MapHas(apiInstances, input.api_name)
    /\ FindEndpoint(allEndpoints, input.api_name, input.method, input.path) # 0

\* init() has returned and no invocation is being answered.
Serving == pc = "done" /\ lastCall = NoCall

SearchApi ==
    /\ Serving
    /\ variant = "router"
    /\ \E input \in SearchApiInputs :
        \E upstream \in IF ReachesUpstream(input) THEN Upstreams ELSE {NetworkError} :
          LET r == search_api(apiInstances, allEndpoints, input, upstream)
          IN  /\ lastCall' = [tool |-> "search_api", input |-> input, upstream |-> upstream]
              /\ lastResponse' = r.response
              /\ lastRequests' = r.requests
              /\ apiInstances' = r.instances
    /\ UNCHANGED <<normalizerVars, workerVars, configData, loadedConfig, variant, config, pc, apiIdx, allEndpoints,
                   registeredTools, parseCalls, parseFailed, loadErrors>>

ListApis ==
    /\ Serving
    /\ lastCall' = [tool |-> "list_apis"]
    /\ lastResponse' = list_apis(variant, allEndpoints, apiInstances)
    /\ lastRequests' = <<>>
    /\ UNCHANGED loadVars

TestConnection ==
    /\ Serving
    /\ \E message \in {"ping"} :
          /\ lastCall' = [tool |-> "test_connection", message |-> message]
          /\ lastResponse' = test_connection(variant, allEndpoints, apiInstances, message)
    /\ lastRequests' = <<>>
    /\ UNCHANGED loadVars

\* The response of the invocation has been handed to the caller.
Deliver ==
    /\ pc = "done"
    /\ lastCall # NoCall
    /\ lastCall' = NoCall
    /\ lastResponse' = NoResponse
    /\ lastRequests' = <<>>
    /\ UNCHANGED loadVars

Invoke == SearchApi \/ ListApis \/ TestConnection \/ Deliver

Next == Load \/ Invoke

Spec == Init /\ [][Next]_vars

-----------------------------------------------------------------------------
(* loadConfig on its own: the configuration data it may be handed. *)

RawApi(name, title, swaggerUrl, baseUrl, auth, enabled, maxTools) ==
    [name |-> name, title |-> title, swaggerUrl |-> swaggerUrl, baseUrl |-> baseUrl,
     auth |-> auth, enabled |-> enabled, maxTools |-> maxTools]

\* Raw entries: complete, with enabled and maxTools left out, without auth,
\* and four the schema refuses (no name, a swaggerUrl that is no URL, a
\* maxTools that is a string, an auth type outside the enum).
RawApis ==
    { RawApi("demo", "Demo", DemoSpecUrl, "https://x/api", BearerAuth("abc"),
             JsBoolean(FALSE), JsNumber(MaxToolsBound)),
      RawApi("shop", "Item Shop", ShopSpecUrl, "https://y", ApiKeyAuth("k1", "X-Key", "header"),
             JsUndefined, JsUndefined),
      RawApi("open", "Open", ShopSpecUrl, "https://y", NoAuth, JsBoolean(TRUE), JsUndefined),
      RawApi(Undefined, "Nameless", DemoSpecUrl, "https://x/api", NoAuth,
             JsUndefined, JsUndefined),
      RawApi("local", "Local", "spec.json", "https://x/api", NoAuth, JsUndefined, JsUndefined),
      RawApi("many", "Many", DemoSpecUrl, "https://x/api", NoAuth, JsUndefined, JsString("all")),
      RawApi("digest", "Digest", DemoSpecUrl, "https://x/api",
             Auth("digest", Undefined, Undefined, Undefined, Undefined, Undefined, Undefined),
             JsUndefined, JsUndefined) }

RawLists == UNION { [1..n -> RawApis] : n \in 0..MaxApis }

ConfigDatas ==
    { NoConfigData }
    \cup { [given |-> TRUE, hasApis |-> FALSE, apis |-> <<>>, logLevel |-> "info",
            hasServer |-> TRUE] }
    \cup { [given |-> TRUE, hasApis |-> TRUE, apis |-> apis, logLevel |-> level,
            hasServer |-> hasServer] :
              apis \in RawLists, level \in {Undefined, "info", "verbose"},
              hasServer \in BOOLEAN }

\* The state when init() is about to call loadConfig.
InitConfig ==
    /\ NormalizerIdle
    /\ WorkerIdle
    /\ configData \in ConfigDatas
    /\ loadedConfig = NotLoaded
    /\ variant \in {"router", "tools"}
    /\ config = <<>>
    /\ pc = "config"
    /\ apiIdx = 1
    /\ apiInstances = <<>>
    /\ allEndpoints = <<>>
    /\ registeredTools = <<>>
    /\ parseCalls = <<>>
    /\ parseFailed = {}
    /\ loadErrors = {}
    /\ lastCall = NoCall
    /\ lastResponse = NoResponse
    /\ lastRequests = <<>>

\* loadConfig of config.ts returns or rejects.
LoadConfig ==
    /\ pc = "config"
    /\ variant = "router"
    /\ loadedConfig' = loadConfig(configData)
    /\ config' = loadedConfig'.config.apis
    /\ pc' = "configured"
    /\ UNCHANGED <<normalizerVars, workerVars, configData, variant, apiIdx, apiInstances, allEndpoints, registeredTools,
                   parseCalls, parseFailed, loadErrors, lastCall, lastResponse, lastRequests>>

\* loadConfig of part_004 returns or rejects.
LoadConfigWorkers ==
    /\ pc = "config"
    /\ variant = "tools"
    /\ loadedConfig' = loadConfigWorkers(configData)
    /\ config' = loadedConfig'.config.apis
    /\ pc' = "configured"
    /\ UNCHANGED <<normalizerVars, workerVars, configData, variant, apiIdx, apiInstances, allEndpoints, registeredTools,
                   parseCalls, parseFailed, loadErrors, lastCall, lastResponse, lastRequests>>

NextConfig == LoadConfig \/ LoadConfigWorkers

SpecConfig == InitConfig /\ [][NextConfig]_vars

-----------------------------------------------------------------------------
(* Properties of the loader. *)

Enabled == {i \in 1..Len(config) : config[i].enabled}

Listed(name) == MapHas(apiInstances, name)

DistinctNames ==
    \A i, j \in 1..Len(config) : config[i].name = config[j].name => i = j

\* C1: after init() has finished, the catalog holds exactly the enabled
\* entries whose parse succeeded: its size is the number of enabled entries
\* minus the number whose parse failed, an entry whose parse failed is not
\* listed, a disabled entry was never parsed and is not listed, and every
\* enabled entry was tried, whatever happened to the entries before it.
C1_CatalogIsEnabledMinusFailed ==
    (variant = "router" /\ pc = "done") =>
        /\ Len(apiInstances) = Cardinality(Enabled) - Cardinality(parseFailed)
        /\ \A i \in parseFailed : ~Listed(config[i].name)
        /\ \A i \in 1..Len(config) :
              ~config[i].enabled =>
                  /\ ~Listed(config[i].name)
                  /\ \A k \in 1..Len(parseCalls) : parseCalls[k] # i
        /\ \A i \in Enabled : \E k \in 1..Len(parseCalls) : parseCalls[k] = i

\* The statement of C1 for configuration lists whose names all differ.
C1_HoldsForDistinctNames == DistinctNames => C1_CatalogIsEnabledMinusFailed

\* C2: no half-loaded API is stored: an entry one of whose load steps failed
\* is absent from the catalog and has left no endpoint and no tool behind.
\* (Stated for configuration lists whose names all differ, so that the name
\* found in the catalog is the failed entry's own.)
C2_NoHalfLoadedApi ==
    DistinctNames =>
        \A i \in loadErrors :
            /\ ~Listed(config[i].name)
            /\ \A k \in 1..Len(allEndpoints) : allEndpoints[k].apiName # config[i].name
            /\ \A k \in 1..Len(registeredTools) :
                  SubSeq(registeredTools[k], 1, Len(config[i].name) + 1)
                      # config[i].name \o "_"

\* The statement of C2 holds of the revision that indexes endpoints.
C2_HoldsForRouter == variant = "router" => C2_NoHalfLoadedApi

\* C3: for every API of the catalog, the flat endpoint list holds at most
\* maxTools entries that carry the API's name.
C3_EndpointCountWithinCap ==
    \A k \in 1..Len(apiInstances) :
        getApiEndpointCount(allEndpoints, apiInstances[k].name)
            <= apiInstances[k].instance.config.maxTools

\* The statement of C3 for configuration lists whose names all differ.
C3_HoldsForDistinctNames == DistinctNames => C3_EndpointCountWithinCap

-----------------------------------------------------------------------------
(* Properties of the invocations. *)

StartsWith(s, prefix) == Len(s) >= Len(prefix) /\ SubSeq(s, 1, Len(prefix)) = prefix

\* A field of a tool input that holds a non-empty string.
Populated(x) == x # Undefined /\ x # ""

IsSearchApi == lastCall.tool = "search_api"

\* The handled input names all of api_name, method and path.
IsCallRequest ==
    /\ IsSearchApi
    /\ Populated(lastCall.input.api_name)
    /\ Populated(lastCall.input.method)
    /\ Populated(lastCall.input.path)

\* The handled input names nothing but a query.
IsSearchRequest ==
    /\ IsSearchApi
    /\ Populated(lastCall.input.query)
    /\ ~Populated(lastCall.input.api_name)
    /\ ~Populated(lastCall.input.method)
    /\ ~Populated(lastCall.input.path)

\* The handled call resolved its endpoint and one request went out.
IssuedRequest == IsSearchApi /\ Len(lastRequests) = 1

HasHeader(request, name, value) ==
    name \in DOMAIN request.headers /\ request.headers[name] = value

\* The field's name is a placeholder of the endpoint's URL.
ConsumedByPath(cfg, path, e) == Includes(cfg.baseUrl \o path, "{" \o e.key \o "}")

SentKeys(request) ==
    {request.params[i].key : i \in 1..Len(request.params)}
        \cup {request.data[i].key : i \in 1..Len(request.data)}

IsDemoScenario ==
    /\ IsCallRequest
    /\ lastCall.input.api_name = "demo"
    /\ lastCall.input.method = "GET"
    /\ lastCall.input.path = "/items/{id}"
    /\ lastCall.input.parameters = << Field("id", "42") >>
    /\ ~Populated(lastCall.input.auth_token)
    /\ Listed("demo")
    /\ MapGet(apiInstances, "demo").config.baseUrl = "https://x/api"
    /\ MapGet(apiInstances, "demo").config.auth = BearerAuth("abc")
    /\ \E k \in 1..Len(allEndpoints) :
          /\ allEndpoints[k].apiName = "demo"
          /\ allEndpoints[k].method = "GET"
          /\ allEndpoints[k].path = "/items/{id}"

\* The demo scenario's request apart from its query parameters: one GET to
\* https://x/api/items/42 with Authorization: Bearer abc.
C4_DemoRequestLine ==
    IsDemoScenario =>
        /\ Len(lastRequests) = 1
        /\ toUpperCase(lastRequests[1].method) = "GET"
        /\ lastRequests[1].url = "https://x/api/items/42"
        /\ HasHeader(lastRequests[1], "Authorization", "Bearer abc")

\* C4: in the demo scenario the call with {id: '42'} issues exactly one GET
\* to https://x/api/items/42 with Authorization: Bearer abc and no query
\* parameter; and whatever the call, a field consumed by path substitution
\* is sent neither as a query parameter nor in the body.
C4_PathFieldNotSentAgain ==
    /\ C4_DemoRequestLine
    /\ IsDemoScenario =>
          /\ lastRequests[1].has = "params"
          /\ lastRequests[1].params = <<>>
    /\ IssuedRequest =>
          \A i \in 1..Len(lastCall.input.parameters) :
              LET e == lastCall.input.parameters[i]
              IN  (e.type = "string"
                     /\ ConsumedByPath(MapGet(apiInstances, lastCall.input.api_name).config,
                                       lastCall.input.path, e))
                  => e.key \notin SentKeys(lastRequests[1])

C6_HandlersAlwaysRespond ==
    lastCall # NoCall => (~lastResponse.threw /\ Len(lastResponse.content) > 0)

HasItem(content, prefix) == \E i \in 1..Len(content) : StartsWith(content[i], prefix)

SuccessForm(content, upstream) ==
    /\ Includes(content[1], "API Call Successful")
    /\ \E i \in 1..Len(content) : content[i] = "**Status**: " \o ToString(upstream.status)
    /\ \E i \in 1..Len(content) :
          StartsWith(content[i], "**Response**") /\ Includes(content[i], upstream.data)
    /\ ~HasItem(content, "**Error")

UpstreamErrorForm(content, upstream) ==
    /\ Includes(content[1], "API Call Failed")
    /\ \E i \in 1..Len(content) : content[i] = "**Status**: " \o ToString(upstream.status)
    /\ \E i \in 1..Len(content) :
          StartsWith(content[i], "**Error Response**") /\ Includes(content[i], upstream.data)
    /\ ~HasItem(content, "**Response**")

TransportForm(content, method, path) ==
    /\ Includes(content[1], "API Call Failed")
    /\ ~HasItem(content, "**Status**")
    /\ ~HasItem(content, "**Response**")
    /\ ~HasItem(content, "**Error Response**")
    /\ HasItem(content, "**Error**: ")
    /\ \E i \in 1..Len(content) :
          content[i] = "**Endpoint**: " \o toUpperCase(method) \o " " \o path

\* C7: the outcome of an executed call has one of three forms, set by what
\* the upstream did: a 2xx response gives the success form (status and
\* body), any other response gives the upstream-error form (failure, status
\* and upstream body), and no response gives the transport-failure form
\* (failure, the endpoint, no status); the forms exclude one another.
C7_ThreeOutcomes ==
    IssuedRequest =>
        LET up == lastCall.upstream
            c == lastResponse.content
            success == SuccessForm(c, up)
            upstreamError == UpstreamErrorForm(c, up)
            transport == TransportForm(c, lastCall.input.method, lastCall.input.path)
        IN  /\ ~lastResponse.threw
            /\ success <=> (up.hasResponse /\ up.status \in 200..299)
            /\ upstreamError <=> (up.hasResponse /\ up.status \notin 200..299)
            /\ transport <=> ~up.hasResponse

\* An executed call whose upstream answered 404 came back in the
\* upstream-error form.
C7_Witness ==
    /\ IssuedRequest
    /\ lastCall.upstream.hasResponse
    /\ lastCall.upstream.status = 404
    /\ UpstreamErrorForm(lastResponse.content, lastCall.upstream)

NotIndexed(apiName, method, path) ==
    \A k \in 1..Len(allEndpoints) :
        ~(/\ allEndpoints[k].apiName = apiName
          /\ allEndpoints[k].method = toUpperCase(method)
          /\ allEndpoints[k].path = path)

ListsLoadedApis(text) ==
    Includes(text, "Available APIs: " \o Join(MapKeys(apiInstances), ", "))

\* C8 as claimed: a call naming an API that is not loaded, or a (method,
\* path) pair that is not indexed for a loaded API, issues no request and
\* returns a not-found result that lists the alternatives: the loaded API
\* names, respectively the endpoints indexed for the API.
C8_NotFoundListsAlternatives ==
    IsCallRequest =>
        LET in == lastCall.input
            text == lastResponse.content[1]
        IN  /\ ~Listed(in.api_name) =>
                  /\ lastRequests = <<>>
                  /\ StartsWith(text, "**API not found**")
                  /\ ListsLoadedApis(text)
            /\ (Listed(in.api_name) /\ NotIndexed(in.api_name, in.method, in.path)) =>
                  /\ lastRequests = <<>>
                  /\ StartsWith(text, "**Endpoint not found**")
                  /\ \A k \in 1..Len(allEndpoints) :
                        allEndpoints[k].apiName = in.api_name =>
                            Includes(text, allEndpoints[k].method \o " " \o allEndpoints[k].path)

\* C8 as amended: an unknown API name gives a not-found result that lists the
\* names of the loaded APIs; a pair that is not indexed gives a not-found
\* result that names the requested method, path and API and points to the
\* query mode of search_api; neither issues a request.
C8_NotFoundResults ==
    IsCallRequest =>
        LET in == lastCall.input
            text == lastResponse.content[1]
        IN  /\ ~Listed(in.api_name) =>
                  /\ lastRequests = <<>>
                  /\ ~lastResponse.threw
                  /\ StartsWith(text, "**API not found**: " \o in.api_name)
                  /\ ListsLoadedApis(text)
            /\ (Listed(in.api_name) /\ NotIndexed(in.api_name, in.method, in.path)) =>
                  /\ lastRequests = <<>>
                  /\ ~lastResponse.threw
                  /\ StartsWith(text, "**Endpoint not found**: "
                                        \o toUpperCase(in.method) \o " " \o in.path)
                  /\ Includes(text, "API: " \o in.api_name)
                  /\ Includes(text, "Use search_api with a query")

\* A call named an API that is not loaded while two APIs were, and the
\* result lists both names.
C8_Witness ==
    /\ IsCallRequest
    /\ ~Listed(lastCall.input.api_name)
    /\ Len(apiInstances) = 2
    /\ ListsLoadedApis(lastResponse.content[1])
    /\ lastRequests = <<>>

SearchOutcome(response) ==
    \/ StartsWith(response.content[1], "**Found ")
    \/ StartsWith(response.content[1], "**No endpoints found")

CallOutcome(response) ==
    \/ StartsWith(response.content[1], "**API not found**")
    \/ StartsWith(response.content[1], "**Endpoint not found**")
    \/ Includes(response.content[1], "** API Call ")

UsageOutcome(response) == StartsWith(response.content[1], "**Invalid Usage**")

\* C9: search_api takes exactly one mode, set by which of query, api_name,
\* method and path are populated: the query alone gives a search; api_name,
\* method and path together give a call; anything else gives the usage
\* error, with no search and no outbound request.
C9_Dispatch ==
    IsSearchApi =>
        /\ IsSearchRequest =>
              /\ SearchOutcome(lastResponse)
              /\ ~CallOutcome(lastResponse) /\ ~UsageOutcome(lastResponse)
              /\ lastRequests = <<>>
        /\ IsCallRequest =>
              /\ CallOutcome(lastResponse)
              /\ ~SearchOutcome(lastResponse) /\ ~UsageOutcome(lastResponse)
              /\ lastResponse.blocks = <<>>
        /\ (~IsSearchRequest /\ ~IsCallRequest) =>
              /\ UsageOutcome(lastResponse)
              /\ ~SearchOutcome(lastResponse) /\ ~CallOutcome(lastResponse)
              /\ lastResponse.blocks = <<>>
              /\ lastRequests = <<>>

\* An input with a query and an api_name but no method and no path got the
\* usage error.
C9_Witness ==
    /\ IsSearchApi
    /\ Populated(lastCall.input.query)
    /\ Populated(lastCall.input.api_name)
    /\ ~Populated(lastCall.input.method)
    /\ UsageOutcome(lastResponse)

\* The field holds the term, compared case-insensitively.
FieldHas(field, term) ==
    field # Undefined /\ Includes(toLowerCase(field), toLowerCase(term))

InPathSummaryDescription(endpoint) ==
    \/ FieldHas(endpoint.path, "item")
    \/ FieldHas(endpoint.summary, "item")
    \/ FieldHas(endpoint.description, "item")

InSearchedFields(endpoint) ==
    \/ InPathSummaryDescription(endpoint)
    \/ FieldHas(endpoint.operationId, "item")
    \/ FieldHas(endpoint.apiTitle, "item")
    \/ FieldHas(endpoint.apiName, "item")

\* The search result renders exactly the endpoints of expected (the first
\* ten of them), and none gives the no-match outcome.
RendersExactly(expected) ==
    /\ lastResponse.blocks
          = [i \in 1..Min(DisplayLimit, Len(expected)) |-> Block(expected[i])]
    /\ Len(expected) = 0 =>
          StartsWith(lastResponse.content[1], "**No endpoints found for query: ")
    /\ Len(expected) > 0 =>
          StartsWith(lastResponse.content[1],
                     "**Found " \o ToString(Len(expected)) \o " matching endpoints")

IsSearchForItem == IsSearchRequest /\ toLowerCase(lastCall.input.query) = "item"

\* C10 as claimed: search("item") returns exactly the endpoints whose path,
\* summary or description holds "item", compared case-insensitively, and
\* the no-match outcome when there is none.
C10_SearchByPathSummaryDescription ==
    IsSearchForItem => RendersExactly(SelectSeq(allEndpoints, InPathSummaryDescription))

\* C10 as amended: search("item") returns exactly the endpoints whose path,
\* summary, description, operation identifier, API title or API name holds
\* "item", compared case-insensitively (the first ten of them are shown, with
\* the total), and the no-match outcome when there is none.
C10_SearchBySearchedFields ==
    IsSearchForItem => RendersExactly(SelectSeq(allEndpoints, InSearchedFields))

\* A search for "item" returned an endpoint that holds the term only in its
\* API title, in upper case.
C10_Witness ==
    /\ IsSearchForItem
    /\ \E i \in 1..Len(lastResponse.blocks) :
          /\ lastResponse.blocks[i].path = "/a-b"
          /\ lastResponse.blocks[i].apiTitle = "Item Shop"
          /\ lastResponse.blocks[i].apiName = "shop"

-----------------------------------------------------------------------------
(* Properties that relate the index, the catalog and the calls. *)

\* The input's parameters hold a string for every placeholder of the path.
FillsPlaceholders(path, parameters) ==
    \A i \in 1..Len(path) :
        CharAt(path, i) = "{" =>
            \E k \in 1..Len(parameters) :
                /\ parameters[k].type = "string"
                /\ Includes(path, "{" \o parameters[k].key \o "}")
                /\ IndexOf(path, "{" \o parameters[k].key \o "}") = i

\* The endpoint is shown by a search for its own summary.
FoundBySummary(endpoint) ==
    /\ Populated(endpoint.summary)
    /\ \E i \in 1..Len(searchEndpoints(allEndpoints, endpoint.summary).blocks) :
          searchEndpoints(allEndpoints, endpoint.summary).blocks[i] = Block(endpoint)

\* The handled call names the endpoint by the key its search block shows.
CallsByShownKey(endpoint) ==
    /\ IsCallRequest
    /\ lastCall.input.api_name = Block(endpoint).apiName
    /\ lastCall.input.method = Block(endpoint).method
    /\ lastCall.input.path = Block(endpoint).path

\* The request went to the base URL of the configuration entry the endpoint
\* was indexed from, followed by the path with its placeholders substituted.
ReachedEndpointUrl(endpoint) ==
    /\ Len(lastRequests) = 1
    /\ \E i \in 1..Len(config) :
          /\ config[i].name = endpoint.apiName
          /\ config[i].title = endpoint.apiTitle
          /\ lastRequests[1].url
                = SubstitutePath(config[i].baseUrl \o endpoint.path, lastCall.input.parameters)

\* C11: an endpoint that a search for a term of its summary returns can be
\* called by the (apiName, method, path) its search block shows: the call is
\* answered neither with API-not-found nor with endpoint-not-found, and the
\* request goes to the API's baseUrl + path with the placeholders
\* substituted.
C11_RoundTrip ==
    \A k \in 1..Len(allEndpoints) :
        (/\ FoundBySummary(allEndpoints[k])
         /\ CallsByShownKey(allEndpoints[k])
         /\ FillsPlaceholders(allEndpoints[k].path, lastCall.input.parameters))
        => /\ ~StartsWith(lastResponse.content[1], "**API not found**")
           /\ ~StartsWith(lastResponse.content[1], "**Endpoint not found**")
           /\ ReachedEndpointUrl(allEndpoints[k])

\* The statement of C11 for configuration lists whose names all differ.
C11_HoldsForDistinctNames == DistinctNames => C11_RoundTrip

\* A round trip on the API demo: GET /items/{id} is found by its summary and
\* the call with id 42 went to https://x/api/items/42.
C11_RoundTripHappens ==
    /\ DistinctNames
    /\ \E k \in 1..Len(allEndpoints) :
          /\ FoundBySummary(allEndpoints[k])
          /\ CallsByShownKey(allEndpoints[k])
          /\ FillsPlaceholders(allEndpoints[k].path, lastCall.input.parameters)
          /\ lastRequests[1].url = "https://x/api/items/42"

\* C12: API names are unique across the catalog: when two enabled entries
\* share a name, the later one is reported as an error once init() has
\* handled it, and no catalog entry stands for endpoints indexed from another
\* configuration entry than its own.
C12_DuplicateNamesRejected ==
    /\ \A i, j \in 1..Len(config) :
          (/\ i < j /\ j < apiIdx
           /\ config[i].enabled /\ config[j].enabled
           /\ config[i].name = config[j].name)
          => j \in loadErrors
    /\ \A k \in 1..Len(allEndpoints) :
          Listed(allEndpoints[k].apiName) =>
              allEndpoints[k].apiTitle
                  = MapGet(apiInstances, allEndpoints[k].apiName).config.title

-----------------------------------------------------------------------------
(* Properties of loadConfig. *)

BuiltIn == {defaultConfig, fullConfig, defaultConfigWorkers}

\* The returned entries are the given ones, the defaults of the schema
\* filled in where the data leaves enabled or maxTools out.
IsDataWithDefaults(cfg, data) ==
    /\ Len(cfg.apis) = Len(data.apis)
    /\ \A i \in 1..Len(data.apis) :
          /\ cfg.apis[i].name = data.apis[i].name
          /\ cfg.apis[i].title = data.apis[i].title
          /\ cfg.apis[i].swaggerUrl = data.apis[i].swaggerUrl
          /\ cfg.apis[i].baseUrl = data.apis[i].baseUrl
          /\ cfg.apis[i].auth = data.apis[i].auth
          /\ cfg.apis[i].enabled
                = (data.apis[i].enabled.type = "undefined" \/ data.apis[i].enabled.value)
          /\ IF data.apis[i].maxTools.type = "undefined"
             THEN cfg.apis[i].maxTools = 10
             ELSE cfg.apis[i].maxTools = data.apis[i].maxTools.value
    /\ cfg.log.level = data.logLevel

\* C13: loadConfig never throws: for data that fails the schema it returns
\* the built-in default configuration, for valid data it returns the data
\* with the defaults of the schema applied, and whatever it is given
\* (nothing included) the configuration it returns has at least one entry.
C13_LoadConfigFallsBack ==
    loadedConfig.loaded =>
        /\ ~loadedConfig.threw
        /\ Len(loadedConfig.config.apis) >= 1
        /\ (configData.given /\ ~ConfigSchemaAccepts(configData)) =>
              loadedConfig.config
                  = (IF variant = "router" THEN defaultConfig ELSE defaultConfigWorkers)
        /\ (configData.given /\ ConfigSchemaAccepts(configData)) =>
              IsDataWithDefaults(loadedConfig.config, configData)
        /\ ~configData.given => loadedConfig.config \in BuiltIn

\* loadConfig of config.ts was handed a list with an entry that has no name
\* and returned defaultConfig.
C13_Witness ==
    /\ loadedConfig.loaded
    /\ variant = "router"
    /\ configData.given
    /\ configData.hasApis
    /\ \E i \in 1..Len(configData.apis) : configData.apis[i].name = Undefined
    /\ loadedConfig.config = defaultConfig

-----------------------------------------------------------------------------
(* Properties of the index and of the tool identifiers. *)

\* The keys of a path item that name an operation.
HttpMethods == {"get", "put", "post", "delete", "options", "head", "patch", "trace"}

\* The operations of a path item, in document order.
RECURSIVE OperationsOfItem(_, _)
OperationsOfItem(path, entries) ==
    IF Len(entries) = 0 THEN <<>>
    ELSE (IF Head(entries).key \in HttpMethods /\ ~Head(entries).isNull
          THEN << [path |-> path, method |-> Head(entries).key,
                   operation |-> Head(entries).operation] >>
          ELSE <<>>)
         \o OperationsOfItem(path, Tail(entries))

\* The operations of a document: paths in order, then methods within a path.
RECURSIVE OperationsOf(_)
OperationsOf(paths) ==
    IF Len(paths) = 0 THEN <<>>
    ELSE (IF Head(paths).isNull THEN <<>>
          ELSE OperationsOfItem(Head(paths).path, Head(paths).pathItem))
         \o OperationsOf(Tail(paths))

\* The first min(maxTools, N) operations of an instance's document.
FirstOperations(instance) ==
    SubSeq(OperationsOf(instance.swaggerSpec.paths), 1,
           Min(instance.config.maxTools, Len(OperationsOf(instance.swaggerSpec.paths))))

\* C14: tool identifiers are unique: once the APIs are loaded, the
\* identifiers {apiName}_{operation name} derived for two different
\* operations among those each API exposes (the same API's or two APIs') are
\* different.
C14_ToolIdentifiersUnique ==
    pc = "done" =>
        \A k1, k2 \in 1..Len(apiInstances) :
            \A i1 \in 1..Len(FirstOperations(apiInstances[k1].instance)) :
                \A i2 \in 1..Len(FirstOperations(apiInstances[k2].instance)) :
                    LET o1 == FirstOperations(apiInstances[k1].instance)[i1]
                        o2 == FirstOperations(apiInstances[k2].instance)[i2]
                    IN  <<k1, i1>> # <<k2, i2>> =>
                            ToolName(apiInstances[k1].instance.config,
                                     o1.path, o1.method, o1.operation)
                              # ToolName(apiInstances[k2].instance.config,
                                         o2.path, o2.method, o2.operation)

IndexedUnder(apiName) ==
    LET own == SelectSeq(allEndpoints, LAMBDA e : e.apiName = apiName)
    IN  [i \in 1..Len(own) |-> <<own[i].method, own[i].path>>]

\* C16: truncation is by document order only: for every API the indexed
\* endpoints are the first min(maxTools, N) operations of its document, in
\* document order, N being the number of its operations.  (Stated for
\* configuration lists whose names all differ.)
C16_TruncationByDocumentOrder ==
    DistinctNames =>
        \A k \in 1..Len(apiInstances) :
            variant = "router" =>
                IndexedUnder(apiInstances[k].name)
                    = [i \in 1..Len(FirstOperations(apiInstances[k].instance)) |->
                         << toUpperCase(FirstOperations(apiInstances[k].instance)[i].method),
                            FirstOperations(apiInstances[k].instance)[i].path >>]

\* C17: every entry of the flat endpoint list stands for an operation: its
\* method is an HTTP method; no other key of a path item is indexed.
C17_OnlyOperationsIndexed ==
    \A k \in 1..Len(allEndpoints) : toLowerCase(allEndpoints[k].method) \in HttpMethods

\* C18: no two entries of the flat endpoint list have the same
\* (apiName, method, path).
C18_EndpointKeysUnique ==
    \A k, l \in 1..Len(allEndpoints) :
        (/\ allEndpoints[k].apiName = allEndpoints[l].apiName
         /\ allEndpoints[k].method = allEndpoints[l].method
         /\ allEndpoints[k].path = allEndpoints[l].path) => k = l

\* The statement of C18 for configuration lists whose names all differ.
C18_HoldsForDistinctNames == DistinctNames => C18_EndpointKeysUnique

\* The entry was indexed from a key of the instance's document.
ComesFrom(endpoint, instance) ==
    /\ endpoint.apiTitle = instance.config.title
    /\ \E p \in 1..Len(instance.swaggerSpec.paths) :
          /\ ~instance.swaggerSpec.paths[p].isNull
          /\ instance.swaggerSpec.paths[p].path = endpoint.path
          /\ \E e \in 1..Len(instance.swaggerSpec.paths[p].pathItem) :
                /\ toUpperCase(instance.swaggerSpec.paths[p].pathItem[e].key) = endpoint.method
                /\ instance.swaggerSpec.paths[p].pathItem[e].operation = endpoint.operation

\* C19: in every state, the states of the load included, every entry of the
\* flat endpoint list belongs to an instance of the catalog: its apiName is a
\* key of the catalog, and its apiTitle and its operation are the ones of
\* that instance's config and document.
C19_EndpointsBelongToCatalog ==
    \A k \in 1..Len(allEndpoints) :
        /\ Listed(allEndpoints[k].apiName)
        /\ ComesFrom(allEndpoints[k], MapGet(apiInstances, allEndpoints[k].apiName))

\* The statement of C19 for configuration lists whose names all differ.
C19_HoldsForDistinctNames == DistinctNames => C19_EndpointsBelongToCatalog

\* The names the paths of the documents use as placeholders.
PlaceholderNames == {"id"}

\* C20: in the URL of an issued request, every placeholder {name} of the path
\* for which the input has a field name is replaced by the field's URL-encoded
\* value, whatever the type of the value; a placeholder that no field matches
\* stays in the URL as it is, and the request is issued all the same.
C20_PathSubstitution ==
    IssuedRequest =>
        /\ \A i \in 1..Len(lastCall.input.parameters) :
              LET e == lastCall.input.parameters[i]
              IN  Includes(lastCall.input.path, "{" \o e.key \o "}") =>
                      /\ ~Includes(lastRequests[1].url, "{" \o e.key \o "}")
                      /\ Includes(lastRequests[1].url, encodeURIComponent(e.value))
        /\ \A name \in PlaceholderNames :
              (/\ Includes(lastCall.input.path, "{" \o name \o "}")
               /\ ~HasField(lastCall.input.parameters, name))
              => Includes(lastRequests[1].url, "{" \o name \o "}")

\* The statement of C20 for the fields whose value is a string.
C20_HoldsForStrings ==
    IssuedRequest =>
        /\ \A i \in 1..Len(lastCall.input.parameters) :
              LET e == lastCall.input.parameters[i]
              IN  (e.type = "string" /\ Includes(lastCall.input.path, "{" \o e.key \o "}")) =>
                      /\ ~Includes(lastRequests[1].url, "{" \o e.key \o "}")
                      /\ Includes(lastRequests[1].url, encodeURIComponent(e.value))
        /\ \A name \in PlaceholderNames :
              (/\ Includes(lastCall.input.path, "{" \o name \o "}")
               /\ ~HasField(lastCall.input.parameters, name))
              => Includes(lastRequests[1].url, "{" \o name \o "}")

-----------------------------------------------------------------------------
(* Properties of the request executor. *)

AuthMaterialNames == {"auth_token", "api_key", "username", "password"}

\* The field has a value, and the value is not the empty string.
HasValue(e) == e.type # "undefined" /\ ~(e.type = "string" /\ e.value = "")

\* The fields of a sequence, as a set.
FieldsOf(fields) == {fields[i] : i \in 1..Len(fields)}

\* C21: the outbound parameter set of an issued request is the input minus
\* the fields named auth_token, api_key, username and password and minus
\* every field whose value is the empty string or absent; for the method
\* GET, in any case, the set goes out as query parameters and there is no
\* body, and for every other method it goes out as the JSON body and there
\* are no query parameters.
C21_ParameterPartition ==
    IssuedRequest =>
        LET input == lastCall.input.parameters
            outbound == {e \in FieldsOf(input) : e.key \notin AuthMaterialNames /\ HasValue(e)}
            request == lastRequests[1]
        IN  IF toUpperCase(lastCall.input.method) = "GET"
            THEN /\ request.has = "params"
                 /\ FieldsOf(request.params) = outbound
                 /\ Len(request.params) = Cardinality(outbound)
                 /\ request.data = <<>>
            ELSE /\ request.has = "data"
                 /\ FieldsOf(request.data) = outbound
                 /\ Len(request.data) = Cardinality(outbound)
                 /\ request.params = <<>>

\* A POST whose input holds an empty q and an api_key went out with an empty
\* body and no query parameters.
C21_Witness ==
    /\ IssuedRequest
    /\ lastCall.input.method = "post"
    /\ lastCall.input.parameters = << Field("q", ""), Field("api_key", "k2") >>
    /\ lastRequests[1].has = "data"
    /\ lastRequests[1].data = <<>>
    /\ lastRequests[1].params = <<>>

\* The auth the issued request was built from, and the instance's default.
UsedAuth == lastRequests[1].effectiveAuth

DefaultAuth == MapGet(apiInstances, lastCall.input.api_name).config.auth

DefaultAuthFields == {"type", "username", "password", "apiKey", "apiKeyName", "apiKeyIn"}

\* C22 as claimed: when the caller supplies an auth override, the auth used
\* for the call consists only of the override: none of type, username,
\* password, apiKey, apiKeyName and apiKeyIn of the instance's default is
\* carried over into it; with no override the default is used unchanged.
C22_OverrideReplacesWholesale ==
    IssuedRequest =>
        IF Populated(lastCall.input.auth_token)
        THEN /\ UsedAuth.token = lastCall.input.auth_token
             /\ \A f \in DefaultAuthFields : UsedAuth[f] = Undefined
        ELSE UsedAuth = DefaultAuth

\* C22 as amended: when the caller supplies a non-empty auth_token, the auth
\* used for the call is the instance's default with its token replaced by
\* the caller's, every other field of the default carried over; with no
\* override the default is used unchanged.
C22_OverrideReplacesToken ==
    IssuedRequest =>
        IF Populated(lastCall.input.auth_token)
        THEN /\ UsedAuth.token = lastCall.input.auth_token
             /\ \A f \in DefaultAuthFields : UsedAuth[f] = DefaultAuth[f]
        ELSE UsedAuth = DefaultAuth

\* A call with the token U on an API whose default is the API key k1 in the
\* header X-Key was built from an auth that holds both, and the key went out.
C22_Witness ==
    /\ IssuedRequest
    /\ lastCall.input.auth_token = "U"
    /\ DefaultAuth = ApiKeyAuth("k1", "X-Key", "header")
    /\ UsedAuth.token = "U"
    /\ UsedAuth.apiKey = "k1"
    /\ HasHeader(lastRequests[1], "X-Key", "k1")

\* The credentials addAuthHeaders reads: the input's field, else the auth's.
ApiKeyUsed == OrElse(FieldValue(lastCall.input.parameters, "api_key"), UsedAuth.apiKey)

UsernameUsed == OrElse(FieldValue(lastCall.input.parameters, "username"), UsedAuth.username)

PasswordUsed == OrElse(FieldValue(lastCall.input.parameters, "password"), UsedAuth.password)

\* The headers of the request besides Content-Type.
AddedHeaders(request) == DOMAIN request.headers \ {"Content-Type"}

\* The request carries the query parameter name=value.
HasQueryParam(request, name, value) ==
    \E i \in 1..Len(request.params) :
        request.params[i].key = name /\ request.params[i].value = value

\* C23: when the credential material of the API's auth type is available,
\* the request carries exactly one authentication addition: Authorization:
\* Bearer for bearer, Authorization: Basic for basic, and for apiKey the key
\* under the declared name in the declared location: as that header and not
\* as a query parameter when the location is header, as that query
\* parameter and not as a header when the location is query.
C23_ExactlyOneAuthAddition ==
    IssuedRequest =>
        LET request == lastRequests[1]
            name == UsedAuth.apiKeyName
        IN  /\ (UsedAuth.type = "bearer"
                   /\ Populated(BearerToken(UsedAuth, lastCall.input.parameters)))
                => /\ AddedHeaders(request) = {"Authorization"}
                   /\ StartsWith(request.headers["Authorization"], "Bearer ")
            /\ (UsedAuth.type = "basic" /\ Populated(UsernameUsed) /\ Populated(PasswordUsed))
                => /\ AddedHeaders(request) = {"Authorization"}
                   /\ StartsWith(request.headers["Authorization"], "Basic ")
            /\ (UsedAuth.type = "apiKey" /\ Populated(ApiKeyUsed) /\ Populated(name)
                   /\ UsedAuth.apiKeyIn = "header")
                => /\ AddedHeaders(request) = {name}
                   /\ request.headers[name] = ApiKeyUsed
                   /\ ~HasQueryParam(request, name, ApiKeyUsed)
            /\ (UsedAuth.type = "apiKey" /\ Populated(ApiKeyUsed) /\ Populated(name)
                   /\ UsedAuth.apiKeyIn = "query")
                => /\ AddedHeaders(request) = {}
                   /\ HasQueryParam(request, name, ApiKeyUsed)

\* The statement of C23 for the auths that do not place an API key in the
\* query.
C23_HoldsOutsideQueryKeys ==
    (IssuedRequest /\ UsedAuth.apiKeyIn # "query") => C23_ExactlyOneAuthAddition

-----------------------------------------------------------------------------
(* Properties of the search. *)

\* A field of an endpoint as the concatenation takes it: nothing when absent.
TextOf(field) == IF field = Undefined THEN "" ELSE field

\* The lower-cased concatenation of the six searched fields, a space between
\* two fields.
Concatenation(endpoint) ==
    toLowerCase(TextOf(endpoint.path) \o " " \o TextOf(endpoint.summary) \o " "
                \o TextOf(endpoint.description) \o " " \o TextOf(endpoint.operationId)
                \o " " \o TextOf(endpoint.apiTitle) \o " " \o TextOf(endpoint.apiName))

\* The endpoints the handled query selects, in the flat list's order.
Selected ==
    SelectSeq(allEndpoints,
              LAMBDA endpoint : Includes(Concatenation(endpoint),
                                         toLowerCase(lastCall.input.query)))

\* The keys of a configuration entry's document, in document order.
RECURSIVE EntryKeys(_, _, _)
EntryKeys(apiConfig, path, entries) ==
    IF Len(entries) = 0 THEN <<>>
    ELSE << <<apiConfig.name, apiConfig.title, toUpperCase(Head(entries).key), path>> >>
         \o EntryKeys(apiConfig, path, Tail(entries))

RECURSIVE DocumentKeys(_, _)
DocumentKeys(apiConfig, paths) ==
    IF Len(paths) = 0 THEN <<>>
    ELSE (IF Head(paths).isNull THEN <<>>
          ELSE EntryKeys(apiConfig, Head(paths).path, Head(paths).pathItem))
         \o DocumentKeys(apiConfig, Tail(paths))

\* The keys of all configured documents: configuration order, then document
\* order.
RECURSIVE CatalogOrder(_)
CatalogOrder(apiConfigs) ==
    IF Len(apiConfigs) = 0 THEN <<>>
    ELSE DocumentKeys(Head(apiConfigs), Document(Head(apiConfigs).swaggerUrl).paths)
         \o CatalogOrder(Tail(apiConfigs))

RECURSIVE IsSubsequence(_, _)
IsSubsequence(s, t) ==
    IF Len(s) = 0 THEN TRUE
    ELSE IF Len(t) = 0 THEN FALSE
    ELSE IF Head(s) = Head(t) THEN IsSubsequence(Tail(s), Tail(t))
    ELSE IsSubsequence(s, Tail(t))

\* The rendered blocks follow configuration order, then document order.
BlocksInCatalogOrder ==
    IsSubsequence([i \in 1..Len(lastResponse.blocks) |->
                     << lastResponse.blocks[i].apiName, lastResponse.blocks[i].apiTitle,
                        lastResponse.blocks[i].method, lastResponse.blocks[i].path >>],
                  CatalogOrder(config))

\* C24 as claimed: a search returns, in catalog order (configuration order of
\* the APIs, then document order within an API) and with no other ranking,
\* all and only the endpoints for which the lower-cased query is a substring
\* of the lower-cased concatenation of path, summary, description,
\* operation identifier, API title and API name, an absent field
\* contributing nothing.
C24_SearchReturnsAllInCatalogOrder ==
    IsSearchRequest =>
        /\ lastResponse.blocks = [i \in 1..Len(Selected) |-> Block(Selected[i])]
        /\ BlocksInCatalogOrder

\* C24 as amended: the search selects all and only those endpoints, states
\* their number, and returns the first ten of them in catalog order with no
\* other ranking (all of them when there are at most ten).
C24_SearchInCatalogOrder ==
    IsSearchRequest =>
        /\ lastResponse.blocks
              = [i \in 1..Min(DisplayLimit, Len(Selected)) |-> Block(Selected[i])]
        /\ BlocksInCatalogOrder
        /\ Len(Selected) > 0 =>
              StartsWith(lastResponse.content[1],
                         "**Found " \o ToString(Len(Selected)) \o " matching endpoints")
        /\ Len(Selected) = 0 =>
              StartsWith(lastResponse.content[1], "**No endpoints found for query: ")

\* A search selected eleven endpoints and returned the first ten, /big/1 to
\* /big/10, in document order.
C24_Witness ==
    /\ IsSearchRequest
    /\ Len(Selected) = DisplayLimit + 1
    /\ Len(lastResponse.blocks) = DisplayLimit
    /\ lastResponse.blocks[1].path = "/big/1"
    /\ lastResponse.blocks[DisplayLimit].path = "/big/10"

(***************************************************************************)
(* The operation-name normalizer: simplifyOperationId of part_002.         *)
(***************************************************************************)

\* The longest generated operation name.
MaxNameLen == 4

EndsWith(s, suffix) ==
    Len(s) >= Len(suffix) /\ SubSeq(s, Len(s) - Len(suffix) + 1, Len(s)) = suffix

DropLast(s, n) == SubSeq(s, 1, Len(s) - n)

\* \d
IsDigit(c) == c \in {"0", "1", "2", "3", "4", "5", "6", "7", "8", "9"}

\* s without the digits it ends with.
RECURSIVE DropTrailingDigits(_)
DropTrailingDigits(s) ==
    IF s # "" /\ IsDigit(SubSeq(s, Len(s), Len(s)))
    THEN DropTrailingDigits(DropLast(s, 1))
    ELSE s

\* s without a final _\d+, when it has one.
DropNumberSuffix(s) ==
    LET d == DropTrailingDigits(s)
    IN  IF d # s /\ EndsWith(d, "_") THEN DropLast(d, 1) ELSE s

\* Using(GET|POST|PUT|DELETE|PATCH)
VerbSuffixes == {"UsingGET", "UsingPOST", "UsingPUT", "UsingDELETE", "UsingPATCH"}

DropVerbSuffix(s) ==
    IF \E v \in VerbSuffixes : EndsWith(s, v)
    THEN DropLast(s, Len(CHOOSE v \in VerbSuffixes : EndsWith(s, v)))
    ELSE s

\* .replace(/Using(GET|POST|PUT|DELETE|PATCH)(_\d+)?$/g, '')
StripVerbSuffix(s) ==
    IF DropVerbSuffix(s) # s THEN DropVerbSuffix(s)
    ELSE IF DropVerbSuffix(DropNumberSuffix(s)) # DropNumberSuffix(s)
         THEN DropVerbSuffix(DropNumberSuffix(s))
         ELSE s

\* .replace(/Controller$/g, '')
StripController(s) == IF EndsWith(s, "Controller") THEN DropLast(s, Len("Controller")) ELSE s

\* let simplified = operationId.replace(...).replace(...)
simplified(opId) == StripController(StripVerbSuffix(opId))

\* The override table.
mappings ==
    <<
       <<"deviceDetail", "device_detail">>,
       <<"deviceList", "device_list">>,
       <<"verifiedDevice", "verify_device">>,
       <<"addSnList", "add_sn_list">>,
       <<"deleteSnList", "delete_sn_list">>,
       <<"findDkList", "find_dk_list">>,
       <<"findSnList", "find_sn_list">>,
       <<"generateSnList", "generate_sn_list">>,
       <<"appQueryProductPanel", "query_product_panel">>,
       <<"appReportingCapability", "reporting_capability">>,
       <<"appRequestPanelByPk", "request_panel_by_pk">>,
       <<"guidanceDetail", "guidance_detail">>,
       <<"itemList", "item_list">>,
       <<"setting", "get_setting">>,
       <<"batchControlDevice", "batch_control_device">>,
       <<"batchGetPureBtResetCredentials", "batch_get_bt_reset_credentials">>,
       <<"batchUnbindlingDevice", "batch_unbind_device">>,
       <<"bind3rdMatterDevice", "bind_matter_device">>,
       <<"bindDeviceBt", "bind_device_bt">>,
       <<"bindDeviceDk", "bind_device_dk">>,
       <<"bindDeviceByPkDk", "bind_device_by_pk_dk">>,
       <<"deviceUserList", "device_user_list">>,
       <<"getUserListByBind", "get_user_list_by_bind">>,
       <<"unbundlingUserDevice", "unbind_user_device">>,
       <<"userDeviceList", "user_device_list">>,
       <<"verifyBindingCode", "verify_binding_code">>,
       <<"acceptDeviceGroupShare", "accept_group_share">>,
       <<"addDeviceGroup", "add_device_group">>,
       <<"addDeviceToGroup", "add_device_to_group">>,
       <<"deleteDeviceGroup", "delete_device_group">>,
       <<"deleteDeviceToGroup", "remove_device_from_group">>,
       <<"getLocation", "get_location">>,
       <<"sendData", "send_data">>,
       <<"batchSendData", "batch_send_data">>,
       <<"deviceResource", "device_resource">>,
       <<"sendData2", "send_data_v2">>,
       <<"readData", "read_data">>,
       <<"addConsentRecord", "add_consent_record">>,
       <<"addReasonCancellation", "add_reason_cancellation">>,
       <<"alipayAuthLogin", "alipay_auth_login">>,
       <<"appLogUpload", "app_log_upload">>,
       <<"appleAuthLogin", "apple_auth_login">>,
       <<"productDetail", "product_detail">>,
       <<"overviewProjects", "overview_projects">>,
       <<"overviewProducts", "overview_products">>,
       <<"products", "products">>,
       <<"openApiProductDetailV3", "open_api_product_detail_v3">>,
       <<"addDeviceUpgrade", "add_device_upgrade">>,
       <<"closeFinishTips", "close_finish_tips">>,
       <<"deleteDeviceUpgrade", "delete_device_upgrade">>,
       <<"getAutoUpgradeSwitch", "get_auto_upgrade_switch">>,
       <<"getDeviceUpgradePlan", "get_device_upgrade_plan">>,
       <<"getZhxyPropertyDataList", "get_zhxy_property_data_list">>,
       <<"getDeviceEventList", "get_device_event_list">>,
       <<"getLocationHistory", "get_location_history">>,
       <<"getPropertyChartList", "get_property_chart_list">>,
       <<"getPropertyDataList", "get_property_data_list">>,
       <<"deviceLocationDelete", "delete_device_location">>,
       <<"deviceLocationFind", "find_device_location">>,
       <<"deviceLocationSave", "save_device_location">>,
       <<"obtainCurrentWeatherOnDk", "get_current_weather">>
    >>

HasOwnMapping(s) == \E i \in 1..Len(mappings) : mappings[i][1] = s

OwnMapping(s) == mappings[CHOOSE i \in 1..Len(mappings) : mappings[i][1] = s][2]

\* The names every object literal inherits from Object.prototype: looking
\* one of them up in the table gives a function, which is truthy.
ObjectPrototypeKeys ==
    {"constructor", "toString", "toLocaleString", "valueOf", "hasOwnProperty",
     "isPrototypeOf", "propertyIsEnumerable"}

StringValue(s) == [type |-> "string", value |-> s]

FunctionValue(name) == [type |-> "function", value |-> name]

UpperCase == "ABCDEFGHIJKLMNOPQRSTUVWXYZ"

LowerCase == "abcdefghijklmnopqrstuvwxyz"

\* [A-Z]
IsUpper(c) == \E i \in 1..Len(UpperCase) : SubSeq(UpperCase, i, i) = c

\* .replace(/([A-Z])/g, '_$1')
RECURSIVE InsertUnderscores(_)
InsertUnderscores(s) ==
    IF s = "" THEN ""
    ELSE LET c == SubSeq(s, 1, 1)
         IN  (IF IsUpper(c) THEN "_" \o c ELSE c) \o InsertUnderscores(SubSeq(s, 2, Len(s)))

\* .replace(/^_/, ''): one leading underscore is removed
StripLeadingUnderscore(s) == IF StartsWith(s, "_") THEN SubSeq(s, 2, Len(s)) ELSE s

\* .replace(/_+/g, '_')
RECURSIVE CollapseUnderscores(_)
CollapseUnderscores(s) ==
    IF Len(s) < 2 THEN s
    ELSE IF SubSeq(s, 1, 2) = "__"
         THEN CollapseUnderscores(SubSeq(s, 2, Len(s)))
         ELSE SubSeq(s, 1, 1) \o CollapseUnderscores(SubSeq(s, 2, Len(s)))

\* The mechanical conversion, in the order of the code: the leading
\* underscore is removed before the runs of underscores are collapsed.
ToSnakeCase(s) ==
    CollapseUnderscores(StripLeadingUnderscore(toLowerCase(InsertUnderscores(s))))

simplifyOperationId(opId) ==
    LET s == simplified(opId)
    IN  IF HasOwnMapping(s) THEN StringValue(OwnMapping(s))
        ELSE IF s \in ObjectPrototypeKeys THEN FunctionValue(s)
        ELSE StringValue(ToSnakeCase(s))

\* The characters of the generated operation names.
OperationIdAlphabet == {"a", "B", "_"}

RECURSIVE NamesOfLen(_)
NamesOfLen(n) ==
    IF n = 0 THEN {""}
    ELSE {c \o w : c \in OperationIdAlphabet, w \in NamesOfLen(n - 1)}

\* Operation names as generators write them, and every short name over the
\* alphabet.
OperationIds ==
    {"deviceDetail", "deviceDetailUsingGET", "getItemUsingGET", "getItemUsingPOST_12",
     "OrderController", "listOrders", "_Foo", "toString", "setting", "sendData2"}
    \cup UNION {NamesOfLen(n) : n \in 1..MaxNameLen}

InitNormalize ==
    /\ rawOperationId \in OperationIds
    /\ normalizedName = NotReturned
    /\ WorkerIdle
    /\ configData = NoConfigData
    /\ loadedConfig = NotLoaded
    /\ variant = "router"
    /\ config = <<>>
    /\ pc = "normalize"
    /\ apiIdx = 1
    /\ apiInstances = <<>>
    /\ allEndpoints = <<>>
    /\ registeredTools = <<>>
    /\ parseCalls = <<>>
    /\ parseFailed = {}
    /\ loadErrors = {}
    /\ lastCall = NoCall
    /\ lastResponse = NoResponse
    /\ lastRequests = <<>>

\* simplifyOperationId(operationId) returns.
SimplifyOperationId ==
    /\ pc = "normalize"
    /\ normalizedName' = simplifyOperationId(rawOperationId)
    /\ pc' = "normalized"
    /\ UNCHANGED <<rawOperationId, workerVars, configData, loadedConfig, variant, config, apiIdx,
                   apiInstances, allEndpoints, registeredTools, parseCalls, parseFailed,
                   loadErrors, lastCall, lastResponse, lastRequests>>

NextNormalize == SimplifyOperationId

SpecNormalize == InitNormalize /\ [][NextNormalize]_vars

(***************************************************************************)
(* Properties of the normalizer                                            *)
(***************************************************************************)

\* [a-z0-9_]*
RECURSIVE IsLowerSnake(_)
IsLowerSnake(s) ==
    \/ s = ""
    \/ /\ LET c == SubSeq(s, 1, 1)
          IN  c = "_" \/ IsDigit(c) \/ \E i \in 1..Len(LowerCase) : SubSeq(LowerCase, i, i) = c
       /\ IsLowerSnake(SubSeq(s, 2, Len(s)))

RECURSIVE HasAdjacentSeparators(_)
HasAdjacentSeparators(s) ==
    /\ Len(s) >= 2
    /\ (SubSeq(s, 1, 2) = "__" \/ HasAdjacentSeparators(SubSeq(s, 2, Len(s))))

\* The name was converted mechanically: the table has no entry for it.
Converted == pc = "normalized" /\ ~HasOwnMapping(simplified(rawOperationId))

\* C25: for every operation name that is not in the override table the
\* result is a lower-case snake_case string without two adjacent separators
\* and without a separator at its start.
C25_ConversionIsSnakeCase ==
    Converted =>
        /\ normalizedName.type = "string"
        /\ IsLowerSnake(normalizedName.value)
        /\ ~HasAdjacentSeparators(normalizedName.value)
        /\ ~StartsWith(normalizedName.value, "_")

\* The result is a lower-case string without two adjacent separators for
\* every name that is not a property of Object.prototype.
C25_LowerCaseAndCollapsed ==
    Converted /\ simplified(rawOperationId) \notin ObjectPrototypeKeys =>
        /\ normalizedName.type = "string"
        /\ IsLowerSnake(normalizedName.value)
        /\ ~HasAdjacentSeparators(normalizedName.value)

\* A name that begins with a letter is converted as claimed.
C25_HoldsForNamesStartingWithLetter ==
    /\ Converted
    /\ simplified(rawOperationId) \notin ObjectPrototypeKeys
    /\ ~StartsWith(simplified(rawOperationId), "_")
    => ~StartsWith(normalizedName.value, "_")

\* The part of C25 about the start of the result, for the names that are
\* not properties of Object.prototype.
C25_NoLeadingSeparator ==
    Converted /\ simplified(rawOperationId) \notin ObjectPrototypeKeys =>
        ~StartsWith(normalizedName.value, "_")

(***************************************************************************)
(* Properties of the listing                                               *)
(***************************************************************************)

\* list_apis answered with the blocks of the loaded APIs.
ListedApis == lastCall.tool = "list_apis" /\ ~lastResponse.threw /\ Len(apiInstances) > 0

\* The block list_apis printed for the k-th API ends with the count n.
PrintsCount(k, n) ==
    /\ lastResponse = list_apis(variant, allEndpoints, apiInstances)
    /\ EndsWith(ApiBlock(variant, allEndpoints, apiInstances[k]),
                ": " \o ToString(n) \o "\n\n")

\* The tools registered for an API: their names begin with the API's name.
getRegisteredToolCount(tools, apiName) ==
    Cardinality({i \in 1..Len(tools) : StartsWith(tools[i], apiName \o "_")})

\* C26: the count list_apis reports for an API is the number of entries of
\* the flat endpoint list that carry the API's name, in every variant.
C26_CountIsFromFlatList ==
    ListedApis =>
        \A k \in 1..Len(apiInstances) :
            PrintsCount(k, getApiEndpointCount(allEndpoints, apiInstances[k].name))

\* The statement of C26 holds of the revision that indexes endpoints.
C26_HoldsForRouter == variant = "router" => C26_CountIsFromFlatList

\* The revision that registers one tool per operation does not report the
\* number of tools it registered for the API either.
C26_CountIsRegisteredTools ==
    ListedApis /\ variant = "tools" /\ DistinctNames =>
        \A k \in 1..Len(apiInstances) :
            PrintsCount(k, getRegisteredToolCount(registeredTools, apiInstances[k].name))

(***************************************************************************)
(* Properties of the declared parameters                                   *)
(***************************************************************************)

\* The parameter names the called operation declares.
DeclaredParameters ==
    LET k == FindEndpoint(allEndpoints, lastCall.input.api_name, lastCall.input.method,
                          lastCall.input.path)
    IN  {allEndpoints[k].parameters[i] : i \in 1..Len(allEndpoints[k].parameters)}

\* The field went out with the request: in the path, the query or the body.
GoesUpstream(e) ==
    \/ e.key \in SentKeys(lastRequests[1])
    \/ /\ e.type = "string"
       /\ ConsumedByPath(MapGet(apiInstances, lastCall.input.api_name).config,
                         lastCall.input.path, e)

\* C27: every declared parameter the caller supplies with a non-empty value
\* reaches the upstream request, whatever its name.
C27_DeclaredParametersReachUpstream ==
    IssuedRequest =>
        \A e \in FieldsOf(lastCall.input.parameters) :
            e.key \in DeclaredParameters /\ HasValue(e) => GoesUpstream(e)

\* The statement of C27 for the declared parameters whose name is not the
\* name of an auth-material field.
C27_HoldsForOtherNames ==
    IssuedRequest =>
        \A e \in FieldsOf(lastCall.input.parameters) :
            e.key \in DeclaredParameters \ AuthMaterialNames /\ HasValue(e) => GoesUpstream(e)

(***************************************************************************)
(* Properties of the token override                                        *)
(***************************************************************************)

\* C28: in call mode for a bearer API, a top-level auth_token U gives the
\* header Authorization: Bearer U whatever the parameters object holds.
C28_TopLevelTokenWins ==
    IssuedRequest =>
        LET auth == MapGet(apiInstances, lastCall.input.api_name).config.auth
            top == lastCall.input.auth_token
        IN  auth.type = "bearer" /\ Populated(top)
                => HasHeader(lastRequests[1], "Authorization", "Bearer " \o top)

\* With a top-level auth_token and a non-empty auth_token in the parameters,
\* the header carries the token of the parameters.
C28_ParametersTokenWins ==
    IssuedRequest =>
        LET auth == MapGet(apiInstances, lastCall.input.api_name).config.auth
            top == lastCall.input.auth_token
            inner == FieldValue(lastCall.input.parameters, "auth_token")
        IN  auth.type = "bearer" /\ Populated(top) /\ Populated(inner)
                => HasHeader(lastRequests[1], "Authorization", "Bearer " \o inner)

(***************************************************************************)
(* The Workers entry point: part_001.  A request runs until its next       *)
(* await; the requests interleave at the awaits.                           *)
(***************************************************************************)

\* The most requests that arrive.
MaxRequests == 3

\* url.pathname of a request: /health is answered without the server.
Pathnames == {"/health", "/api/info", "/other"}

\* A request that waits in initializeSwaggerServer, or has its response;
\* server is what initializeSwaggerServer returned to it, and specAtReturn
\* the state that server's loadSwaggerSpec was in at that moment.
FetchState(pathname, at, server, specAtReturn, status) ==
    [pathname |-> pathname, pc |-> at, server |-> server, specAtReturn |-> specAtReturn,
     status |-> status]

\* new SwaggerMcpServer(...), its loadSwaggerSpec called and pending.
NewServer == [spec |-> "loading"]

\* The response of fetch once initializeSwaggerServer has returned.
ReadyStatus(pathname) == IF pathname = "/api/info" THEN 200 ELSE 404

InitWorkers ==
    /\ NormalizerIdle
    /\ swaggerServer = NullServer
    /\ servers = <<>>
    /\ fetches = <<>>
    /\ configData = NoConfigData
    /\ loadedConfig = NotLoaded
    /\ variant = "router"
    /\ config = <<>>
    /\ pc = "serving"
    /\ apiIdx = 1
    /\ apiInstances = <<>>
    /\ allEndpoints = <<>>
    /\ registeredTools = <<>>
    /\ parseCalls = <<>>
    /\ parseFailed = {}
    /\ loadErrors = {}
    /\ lastCall = NoCall
    /\ lastResponse = NoResponse
    /\ lastRequests = <<>>

\* What a step of the entry point leaves alone.
workerFrame ==
    <<normalizerVars, configData, loadedConfig, variant, config, pc, apiIdx, apiInstances,
      allEndpoints, registeredTools, parseCalls, parseFailed, loadErrors, lastCall,
      lastResponse, lastRequests>>

\* fetch for /health: answered before initializeSwaggerServer is called.
FetchHealth ==
    /\ Len(fetches) < MaxRequests
    /\ fetches' = Append(fetches, FetchState("/health", "responded", NullServer, "none", 200))
    /\ UNCHANGED <<swaggerServer, servers, workerFrame>>

\* fetch calls initializeSwaggerServer and swaggerServer is set: the server
\* is returned as it is.
FetchReturnsServer ==
    /\ Len(fetches) < MaxRequests
    /\ swaggerServer # NullServer
    /\ \E pathname \in Pathnames \ {"/health"} :
          fetches' = Append(fetches,
                            FetchState(pathname, "responded", swaggerServer,
                                       servers[swaggerServer].spec, ReadyStatus(pathname)))
    /\ UNCHANGED <<swaggerServer, servers, workerFrame>>

\* fetch calls initializeSwaggerServer and swaggerServer is null: the call
\* waits for loadConfig().
FetchStartsInit ==
    /\ Len(fetches) < MaxRequests
    /\ swaggerServer = NullServer
    /\ \E pathname \in Pathnames \ {"/health"} :
          fetches' = Append(fetches, FetchState(pathname, "awaitConfig", NullServer, "none", 0))
    /\ UNCHANGED <<swaggerServer, servers, workerFrame>>

\* loadConfig() resolved: the server is constructed and assigned to
\* swaggerServer, loadSwaggerSpec is called, and the call waits for it.
ConfigLoaded ==
    \E i \in 1..Len(fetches) :
        /\ fetches[i].pc = "awaitConfig"
        /\ servers' = Append(servers, NewServer)
        /\ swaggerServer' = Len(servers) + 1
        /\ fetches' = [fetches EXCEPT ![i].pc = "awaitLoad", ![i].server = Len(servers) + 1]
        /\ UNCHANGED workerFrame

\* loadSwaggerSpec resolved: initializeSwaggerServer returns the server.
LoadSpecSucceeds ==
    \E i \in 1..Len(fetches) :
        /\ fetches[i].pc = "awaitLoad"
        /\ servers' = [servers EXCEPT ![fetches[i].server].spec = "loaded"]
        /\ fetches' = [fetches EXCEPT ![i].pc = "responded",
                                      ![i].specAtReturn = "loaded",
                                      ![i].status = ReadyStatus(fetches[i].pathname)]
        /\ UNCHANGED <<swaggerServer, workerFrame>>

\* loadSwaggerSpec rejected: the catch logs and rethrows, swaggerServer stays
\* as assigned, and fetch answers 500.
LoadSpecFails ==
    \E i \in 1..Len(fetches) :
        /\ fetches[i].pc = "awaitLoad"
        /\ servers' = [servers EXCEPT ![fetches[i].server].spec = "failed"]
        /\ fetches' = [fetches EXCEPT ![i].pc = "responded",
                                      ![i].server = NullServer,
                                      ![i].status = 500]
        /\ UNCHANGED <<swaggerServer, workerFrame>>

NextWorkers ==
    \/ FetchHealth
    \/ FetchReturnsServer
    \/ FetchStartsInit
    \/ ConfigLoaded
    \/ LoadSpecSucceeds
    \/ LoadSpecFails

SpecWorkers == InitWorkers /\ [][NextWorkers]_vars

(***************************************************************************)
(* Properties of the lazy initialisation                                   *)
(***************************************************************************)

\* The requests initializeSwaggerServer returned a server to.
Obtained == {i \in 1..Len(fetches) : fetches[i].pc = "responded" /\ fetches[i].server # NullServer}

NoHalfInitialisedServer ==
    /\ swaggerServer # NullServer => servers[swaggerServer].spec # "failed"
    /\ \A i \in Obtained : fetches[i].specAtReturn = "loaded"

\* A request that needs the server and arrives when every load so far has
\* failed and none is pending starts the initialisation again.
RetriesAfterFailure ==
    /\ Len(fetches') = Len(fetches) + 1
    /\ fetches'[Len(fetches')].pathname # "/health"
    /\ Len(servers) > 0
    /\ \A k \in 1..Len(servers) : servers[k].spec = "failed"
    /\ \A i \in 1..Len(fetches) : fetches[i].pc = "responded"
    => fetches'[Len(fetches')].pc = "awaitConfig"

\* C30: a failed lazy initialisation leaves no half-initialised server
\* behind: swaggerServer is not left set to the server whose load failed, a
\* later request attempts the initialisation again, and no request is ever
\* handed a server whose load has not completed with success.
C30_FailureLeavesNoServer == []NoHalfInitialisedServer /\ [][RetriesAfterFailure]_vars

\* The part of C30 about the reference alone.
C30_ReferenceClearedOnFailure ==
    swaggerServer # NullServer => servers[swaggerServer].spec # "failed"

\* The part of C30 about the retry alone.
C30_RetryAfterFailure == [][RetriesAfterFailure]_vars

=============================================================================
